---- MODULE Spec2Model ----
(***************************************************************************)
(* ContextOS: the signal-to-session engine.                                *)
(*                                                                         *)
(*   SpecReact    ReactAgent.execute / execute_continue: the bounded       *)
(*                Thought-Action-Observation loop.                         *)
(*   SpecPipeline Pipeline: the bounded signal queue, its producers, the   *)
(*                consumer threads started by start(), and _handle_signal. *)
(*   Spec         Session and Handler: a built Session's transcripts over  *)
(*                user turns and background continuations.                 *)
(***************************************************************************)
EXTENDS Integers, Sequences, FiniteSets, TLC

VARIABLES
    \* ---- ReactAgent (src/engine/execution/react_agent.py)
    mode,            \* which entry point runs: "execute" or "execute_continue"
    max_iterations,  \* self.max_iterations
    iteration,       \* the for loop's variable
    context,         \* list of (thought, action_name, action_params, observation)
    r_pc,            \* position inside execute / execute_continue
    prompt,          \* the prompt built in this iteration
    prompts,         \* every request handed to llm_client.chat_completion, in order
    llm_response,    \* the response under parse
    exc,             \* the exception caught by `except Exception as e`
    tool_calls,      \* calls of tool_executor.execute made by the loop
    result,          \* what the call returned
    messages,        \* session.messages of the session execute_continue runs on
    payload,         \* execute_continue's deepcopy of session.messages, last entry popped
    \* ---- Pipeline (src/core/pipeline.py)
    queue_size,        \* maxsize of self.signal_queue
    signal_queue,      \* self.signal_queue, head first
    is_running,        \* self.is_running
    processing_thread, \* self.processing_thread: a thread id, or None
    threads,           \* every thread running _process_signals, by id
    ctl,               \* position of the thread calling start() / stop()
    producers,         \* every adapter thread inside route_signal
    next_signal,       \* the uuid the next emitted signal gets
    engine_ready,      \* _init_engine_components succeeded
    enqueued,          \* signals in the order their put() succeeded
    dropped,           \* signals route_signal gave up on
    route_raised,      \* signals whose route_signal raised to the adapter
    handled,           \* signals in the order they entered _handle_signal
    no_intent,         \* signals for which Detector.detect returned None
    classify_calls,    \* signals whose intent was submitted to Classifier.classify
    react_calls,       \* signals whose intent was submitted to ReactAgent.execute
    session,           \* the Session that SessionBuilder.build made last
    inbox,             \* signals whose Session was handed to inbox.add_session
    \* ---- Session, Handler, Inbox (src/models/session.py, src/interfaces/handler.py)
    sessions,           \* every Session object, by uuid
    active_sessions,    \* Handler.active_sessions (its keys)
    timeout_timers,     \* Handler.timeout_timers: per session no timer, a running or a fired one
    workers,            \* every ReactWorkerThread started, in start order
    gui_queue,          \* worker signals queued for the GUI thread, oldest first
    current_session_id, \* Inbox.current_session_id
    max_turns_review,   \* session config max_turns['review']
    user_inputs,        \* on_user_input calls made so far
    \* ---- Classifier.classify (src/engine/intent/classifier.py)
    c_pc,               \* where the classify call is
    c_llm,              \* what the LLM call gave
    c_local,            \* classify's local variable level
    c_level,            \* intent.level of the intent being classified
    c_returned,         \* every finished call: the LLM outcome and the level returned
    \* ---- ToolExecutor.execute (src/engine/execution/tool_executor.py)
    t_pc,               \* where the execute call is
    t_enabled,          \* ToolManager.enabled_tools
    t_name,             \* the argument tool_name
    t_params,           \* the argument params
    t_result,           \* what tool.execute returned
    t_exc,              \* the exception travelling to execute's except clauses
    t_invoked,          \* the tool's own execute was entered
    t_observation,      \* what execute returned
    \* ---- Detector.detect (src/engine/intent/detector.py)
    d_pc,               \* where the detect call is
    d_content,          \* signal.content of the signal under detection
    d_llm,              \* what the LLM call gave
    d_intent,           \* the value detect is about to return
    d_returned,         \* every finished call: the signal, the LLM outcome, the return value
    \* ---- engine components (src/core/pipeline.py, src/core/orchestrator.py)
    pipeline_react_agent, \* Pipeline.react_agent: which ReactAgent instance it is
    engine_components,    \* Handler.engine_components['react_agent']
    apply_pc,             \* where SettingsDialog._apply_llm_config is
    worker_agents,        \* per ReactWorkerThread: its react_agent, and the one run() called
    \* ---- LLMClient.chat_completion (src/utils/llm_client.py)
    l_pc,               \* where the chat_completion call is
    l_config,           \* self.max_retries
    l_arg,              \* the argument max_retries, None included
    l_max_retries,      \* the local max_retries after `or`
    l_attempt,          \* the for loop's variable
    l_log,              \* the outcome of every attempt made, in order
    \* ---- ToolManager (src/integrations/tools/manager.py) and the calls made on it
    m_tools,            \* the names in ToolManager.tools
    m_enabled,          \* ToolManager.enabled_tools
    m_pc,               \* where the ToolExecutor.execute call is, idle between calls
    m_name,             \* its argument tool_name
    m_is_dict,          \* isinstance(params, dict) of its argument params
    m_invoked           \* the tools whose own execute was entered

reactVars == <<mode, max_iterations, iteration, context, r_pc, prompt, prompts,
               llm_response, exc, tool_calls, result, messages, payload>>

pipeVars == <<queue_size, signal_queue, is_running, processing_thread, threads, ctl,
              producers, next_signal, engine_ready, enqueued, dropped, route_raised,
              handled, no_intent, classify_calls, react_calls, session, inbox>>

sessVars == <<sessions, active_sessions, timeout_timers, workers, gui_queue,
              current_session_id, max_turns_review, user_inputs>>

classVars == <<c_pc, c_llm, c_local, c_level, c_returned>>

toolVars == <<t_pc, t_enabled, t_name, t_params, t_result, t_exc, t_invoked,
              t_observation>>

detVars == <<d_pc, d_content, d_llm, d_intent, d_returned>>

reloadVars == <<pipeline_react_agent, engine_components, apply_pc, worker_agents>>

llmVars == <<l_pc, l_config, l_arg, l_max_retries, l_attempt, l_log>>

mgrVars == <<m_tools, m_enabled, m_pc, m_name, m_is_dict, m_invoked>>

vars == <<reactVars, pipeVars, sessVars, classVars, toolVars, detVars, reloadVars,
          llmVars, mgrVars>>

\* what the actions of one component leave alone
notReactVars == <<pipeVars, sessVars, classVars, toolVars,
                 detVars, reloadVars, llmVars, mgrVars>>
notPipeVars == <<reactVars, sessVars, classVars, toolVars,
                 detVars, reloadVars, llmVars, mgrVars>>
notSessVars == <<reactVars, pipeVars, classVars, toolVars, detVars, llmVars, mgrVars>>
notClassVars == <<reactVars, pipeVars, sessVars, toolVars,
                 detVars, reloadVars, llmVars, mgrVars>>
notToolVars == <<reactVars, pipeVars, sessVars, classVars,
                 detVars, reloadVars, llmVars, mgrVars>>
notDetVars == <<reactVars, pipeVars, sessVars, classVars,
                 toolVars, reloadVars, llmVars, mgrVars>>
notLLMVars == <<reactVars, pipeVars, sessVars, classVars,
                 toolVars, detVars, reloadVars, mgrVars>>
notMgrVars == <<reactVars, pipeVars, sessVars, classVars, toolVars, detVars,
                reloadVars, llmVars>>

\* ------------------------------------------------------------------ bounds

MaxIterations == 3
MaxQueueSize == 2
MaxSignals == 3
MaxInputs == 2
MaxTurnsReview == 3
MaxClassifyCalls == 2
MaxDetectCalls == 2
MaxReloads == 1
MaxRetries == 3
MaxBudgetInputs == 5
BudgetTurns == 4

\* ------------------------------------------------------- ReactAgent: data

Thoughts == {"", "t1", "t2"}

\* action_params: a dict, as its set of <<key, value>> items
NoParams == {}
ParamsHas(params, key) == \E kv \in params : kv[1] = key
ParamsGet(params, key, default) ==
    IF ParamsHas(params, key) THEN (CHOOSE kv \in params : kv[1] = key)[2] ELSE default

\* What the LLM may answer: an optional <thought> block and
\*   tag "none": no <action>...</action> block,
\*   tag "bad":  an <action> block whose text is not name(...),
\*   tag "call": <action>name(params)</action>.
FinishNames == {"finish", "Finish"}
Responses ==
    [thought : Thoughts, tag : {"none", "bad"}, name : {""}, params : {NoParams}]
    \cup [thought : Thoughts, tag : {"call"}, name : FinishNames,
          params : {NoParams, {<<"result", "X">>}, {<<"result", "">>}}]
    \cup [thought : Thoughts, tag : {"call"}, name : {"calculator"},
          params : {{<<"expression", "1+1">>}}]
    \cup [thought : Thoughts, tag : {"call"}, name : {"error"}, params : {NoParams}]

NoResponse == [thought |-> "", tag |-> "none", name |-> "", params |-> NoParams]
NoPrompt == [template |-> "", history |-> [header |-> FALSE, steps |-> <<>>],
             forced_finish |-> FALSE]
NoResult == [kind |-> "none"]

\* str.lower() on the action names the model uses
Lower(name) == IF name = "Finish" THEN "finish" ELSE name

\* ReactAgent._is_finish_action
IsFinishActionCaseSensitive(action_name) == action_name = "finish"
IsFinishAction(action_name) == Lower(action_name) = "finish"

\* ReactAgent._extract_final_result
ExtractFinalResult(params) ==
    LET r == ParamsGet(params, "result", "")
    IN  IF r = "" THEN "Task completed (no result provided)" ELSE r

\* ReactAgent._parse_llm_response: (thought, action_name, action_params), or the
\* ValueError it raises
ParseLLMResponse(response) ==
    IF response.tag = "none"
    THEN [ok |-> FALSE, error |-> "No Action found in LLM response"]
    ELSE IF response.tag = "bad"
    THEN [ok |-> FALSE, error |-> "Invalid Action format"]
    ELSE [ok |-> TRUE, thought |-> response.thought,
          action_name |-> response.name, action_params |-> response.params]

\* ToolExecutor.execute as the loop sees it: always an observation string. In this
\* registry "calculator" is registered and enabled, nothing else is.
ToolOutcomes(tool_name) == IF tool_name = "calculator" THEN {"ok", "raises"} ELSE {"absent"}
ToolExecutorExecute(tool_name, outcome) ==
    IF tool_name # "calculator"
    THEN <<"Error: ", "Tool not found", tool_name>>
    ELSE IF outcome = "raises"
    THEN <<"Error executing tool", tool_name>>
    ELSE <<"2">>

IsToolErrorText(observation) ==
    observation[1] \in {"Error: ", "Error executing tool"}

\* the entry the except block appends: f"Error: {str(e)}" with the last thought
ErrorEntryBlankThought(ctx, e) ==
    [thought |-> "", action_name |-> "error", action_params |-> NoParams,
     observation |-> <<"Error: ", e>>]
ErrorEntry(ctx, e) ==
    [thought |-> IF ctx # <<>> THEN ctx[Len(ctx)].thought ELSE "",
     action_name |-> "error", action_params |-> NoParams,
     observation |-> <<"Error: ", e>>]

\* ReactAgent._format_history: "" for an empty context, else the header and one
\* block per entry, numbered by position; entries with action "error" and empty
\* params are left out.
HistorySkipsNone(entry) == FALSE
HistorySkips(entry) == entry.action_name = "error" /\ entry.action_params = NoParams

RECURSIVE HistoryLines(_, _)
HistoryLines(ctx, i) ==
    IF i > Len(ctx) THEN <<>>
    ELSE (IF HistorySkips(ctx[i]) THEN <<>>
          ELSE <<[step |-> i, thought |-> ctx[i].thought,
                  action_name |-> ctx[i].action_name,
                  action_params |-> ctx[i].action_params,
                  observation |-> ctx[i].observation]>>)
         \o HistoryLines(ctx, i + 1)

FormatHistory(ctx) ==
    IF ctx = <<>> THEN [header |-> FALSE, steps |-> <<>>]
    ELSE [header |-> TRUE, steps |-> HistoryLines(ctx, 1)]

\* is_last_iteration = (iteration == self.max_iterations)
IsLastIterationOffByOne(it, max) == it + 1 = max
IsLastIteration(it, max) == it = max

\* ReactAgent._build_react_prompt, and the follow-up prompt of execute_continue
BuildReactPrompt(template, ctx, is_last_iteration) ==
    [template |-> template, history |-> FormatHistory(ctx),
     forced_finish |-> is_last_iteration]

\* for iteration in range(1, self.max_iterations + 1)
RangeHasNextOneMore(it, max) == it + 1 <= max + 1
RangeHasNextOneLess(it, max) == it + 1 < max
RangeHasNext(it, max) == it + 1 <= max

\* a message dict: its role, what its content is, and the user's text in it
UserTurn(text) == [role |-> "user", kind |-> "raw", text |-> text]
WrappedUserTurn(text) == [role |-> "user", kind |-> "react_followup", text |-> text]
AssistantTurn(kind) == [role |-> "assistant", kind |-> kind, text |-> ""]

\* Formatter.format: messages and messages_to_user of a new Session
FormatMessages ==
    << [role |-> "system", kind |-> "system_prompt", text |-> ""],
       [role |-> "user", kind |-> "react_prompt", text |-> ""],
       AssistantTurn("react_final") >>
FormatMessagesToUser == << AssistantTurn("final_answer") >>

\* execute_continue: payload = deepcopy(session.messages); payload.pop()
ContinuePayload(msgs) == SubSeq(msgs, 1, Len(msgs) - 1)
\* session.messages = payload + [{'role': 'user', 'content': llm_call_content}]
ContinueRewriteKeepsRaw(pl, text) == pl \o <<UserTurn(text), WrappedUserTurn(text)>>
ContinueRewrite(pl, text) == pl \o <<WrappedUserTurn(text)>>

\* Formatter.format: the formatted content SessionBuilder.build reads
FormatterFormat(level) ==
    [level |-> level, messages |-> FormatMessages,
     messages_to_user |-> FormatMessagesToUser]

\* SessionBuilder._init_session_config: max_turns of a level
InitSessionConfigSameForAll(level, review_turns) == review_turns
InitSessionConfig(level, review_turns) ==
    IF level = "Notify" THEN 0
    ELSE IF level = "Review" THEN review_turns
    ELSE 0

\* SessionBuilder.build: Session(level, status='pending', messages, messages_to_user, config)
SessionBuilderBuild(formatted, review_turns) ==
    [status |-> "pending", level |-> formatted.level,
     max_turns |-> InitSessionConfig(formatted.level, review_turns),
     messages |-> formatted.messages,
     messages_to_user |-> formatted.messages_to_user,
     is_read |-> FALSE]

\* no Session object yet
Unbuilt ==
    [status |-> "none", level |-> "", max_turns |-> 0, messages |-> <<>>,
     messages_to_user |-> <<>>, is_read |-> FALSE]

\* config.get('max_turns', {'review': -1})
DefaultReviewTurns == -1

\* session.messages as execute_continue may find it
ContinueTranscripts ==
    { FormatMessages \o <<UserTurn("hello")>>,
      FormatMessages }

\* ----------------------------------------------------- ReactAgent: actions

InitReact ==
    /\ mode \in {"execute", "execute_continue"}
    /\ max_iterations \in 0..MaxIterations
    /\ iteration = 0
    /\ context = <<>>
    /\ r_pc = "entry"
    /\ prompt = NoPrompt
    /\ prompts = <<>>
    /\ llm_response = NoResponse
    /\ exc = ""
    /\ tool_calls = 0
    /\ result = NoResult
    /\ messages \in (IF mode = "execute" THEN {<<>>} ELSE ContinueTranscripts)
    /\ payload = <<>>

\* the for statement: the next iteration, or the raise after the loop
LoopAdvance ==
    IF RangeHasNext(iteration, max_iterations)
    THEN /\ iteration' = iteration + 1
         /\ r_pc' = "build"
    ELSE /\ iteration' = iteration
         /\ r_pc' = "raised_fatal"

ExecuteEntry ==
    /\ r_pc = "entry"
    /\ mode = "execute"
    /\ LoopAdvance
    /\ UNCHANGED notReactVars
    /\ UNCHANGED <<mode, max_iterations, context, prompt, prompts, llm_response,
                   exc, tool_calls, result, messages, payload>>

ExecuteContinueEntry ==
    /\ r_pc = "entry"
    /\ mode = "execute_continue"
    /\ IF messages[Len(messages)].role = "user"
       THEN /\ payload' = ContinuePayload(messages)
            /\ LoopAdvance
       ELSE /\ payload' = messages
            /\ r_pc' = "raised_assert"
            /\ iteration' = iteration
    /\ UNCHANGED notReactVars
    /\ UNCHANGED <<mode, max_iterations, context, prompt, prompts, llm_response,
                   exc, tool_calls, result, messages>>

BuildPrompt ==
    /\ r_pc = "build"
    /\ \/ /\ prompt' = BuildReactPrompt(
                 IF mode = "execute" THEN "react_agent_user"
                                     ELSE "react_agent_user_followup",
                 context, IsLastIteration(iteration, max_iterations))
          /\ r_pc' = "call"
          /\ exc' = exc
       \/ /\ exc' = "Prompt template not found"
          /\ r_pc' = "except"
          /\ prompt' = prompt
    /\ UNCHANGED notReactVars
    /\ UNCHANGED <<mode, max_iterations, iteration, context, prompts, llm_response,
                   tool_calls, result, messages, payload>>

CallLLM ==
    /\ r_pc = "call"
    /\ prompts' = Append(prompts, [iteration |-> iteration, prompt |-> prompt])
    /\ \/ /\ \E r \in Responses : llm_response' = r
          /\ r_pc' = "parse"
          /\ exc' = exc
       \/ /\ exc' = "LLM request failed"
          /\ r_pc' = "except"
          /\ llm_response' = llm_response
    /\ UNCHANGED notReactVars
    /\ UNCHANGED <<mode, max_iterations, iteration, context, prompt, tool_calls,
                   result, messages, payload>>

ParseFails ==
    /\ r_pc = "parse"
    /\ ~ParseLLMResponse(llm_response).ok
    /\ exc' = ParseLLMResponse(llm_response).error
    /\ r_pc' = "except"
    /\ UNCHANGED notReactVars
    /\ UNCHANGED <<mode, max_iterations, iteration, context, prompt, prompts,
                   llm_response, tool_calls, result, messages, payload>>

Finish ==
    /\ r_pc = "parse"
    /\ ParseLLMResponse(llm_response).ok
    /\ LET p == ParseLLMResponse(llm_response) IN
       /\ IsFinishAction(p.action_name)
       /\ IF mode = "execute"
          THEN /\ result' = [kind |-> "execute",
                             assistant |-> llm_response,
                             raw_assistant |-> ExtractFinalResult(p.action_params)]
               /\ messages' = messages
          ELSE /\ result' = [kind |-> "execute_continue",
                             assistant |-> llm_response,
                             raw_assistant |-> ExtractFinalResult(p.action_params)]
               /\ messages' = ContinueRewrite(payload, messages[Len(messages)].text)
    /\ r_pc' = "returned"
    /\ UNCHANGED notReactVars
    /\ UNCHANGED <<mode, max_iterations, iteration, context, prompt, prompts,
                   llm_response, exc, tool_calls, payload>>

ExecuteAction ==
    /\ r_pc = "parse"
    /\ ParseLLMResponse(llm_response).ok
    /\ LET p == ParseLLMResponse(llm_response) IN
       /\ ~IsFinishAction(p.action_name)
       /\ \E outcome \in ToolOutcomes(p.action_name) :
            context' = Append(context,
                [thought |-> p.thought, action_name |-> p.action_name,
                 action_params |-> p.action_params,
                 observation |-> ToolExecutorExecute(p.action_name, outcome)])
    /\ tool_calls' = tool_calls + 1
    /\ LoopAdvance
    /\ UNCHANGED notReactVars
    /\ UNCHANGED <<mode, max_iterations, prompt, prompts, llm_response, exc,
                   result, messages, payload>>

HandleException ==
    /\ r_pc = "except"
    /\ context' = Append(context, ErrorEntry(context, exc))
    /\ LoopAdvance
    /\ UNCHANGED notReactVars
    /\ UNCHANGED <<mode, max_iterations, prompt, prompts, llm_response, exc,
                   tool_calls, result, messages, payload>>

NextReact ==
    \/ ExecuteEntry
    \/ ExecuteContinueEntry
    \/ BuildPrompt
    \/ CallLLM
    \/ ParseFails
    \/ Finish
    \/ ExecuteAction
    \/ HandleException


\* ------------------------------------------------ LLMClient.chat_completion

\* max_retries=None
NoArg == -1

\* `max_retries = max_retries or self.max_retries`
EffectiveRetries(arg, config) == IF arg = NoArg \/ arg = 0 THEN config ELSE arg

\* `if attempt == max_retries - 1`
LastAttemptOffByOne(attempt, max_retries) == attempt = max_retries - 2
LastAttempt(attempt, max_retries) == attempt = max_retries - 1

\* what client.chat.completions.create and the two lines after it give: a
\* text, a response whose content is None (len(result) raises), an exception
AttemptOutcomes == {"text", "none content", "raises"}
AttemptFails(outcome) == outcome # "text"

InitLLM ==
    /\ l_pc = "entry"
    /\ l_config \in 0..MaxRetries
    /\ l_arg \in {NoArg} \cup 0..MaxRetries
    /\ l_max_retries = 0
    /\ l_attempt = -1
    /\ l_log = <<>>

\* the two `or` lines, then the for statement
ChatCompletionEntry ==
    /\ l_pc = "entry"
    /\ l_max_retries' = EffectiveRetries(l_arg, l_config)
    /\ l_pc' = "for"
    /\ UNCHANGED <<l_config, l_arg, l_attempt, l_log>>
    /\ UNCHANGED notLLMVars

\* `for attempt in range(max_retries)`: the next attempt, or the raise after
\* the loop
ChatCompletionLoop ==
    /\ l_pc = "for"
    /\ IF l_attempt + 1 < l_max_retries
       THEN l_attempt' = l_attempt + 1 /\ l_pc' = "try"
       ELSE l_attempt' = l_attempt /\ l_pc' = "raised"
    /\ UNCHANGED <<l_config, l_arg, l_max_retries, l_log>>
    /\ UNCHANGED notLLMVars

\* the try block of one attempt and its except clause
ChatCompletionAttempt ==
    /\ l_pc = "try"
    /\ \E outcome \in AttemptOutcomes :
          /\ l_log' = Append(l_log, outcome)
          /\ l_pc' = IF ~AttemptFails(outcome) THEN "returned"
                     ELSE IF LastAttempt(l_attempt, l_max_retries) THEN "raised"
                     ELSE "for"
    /\ UNCHANGED <<l_config, l_arg, l_max_retries, l_attempt>>
    /\ UNCHANGED notLLMVars

NextLLM ==
    \/ ChatCompletionEntry
    \/ ChatCompletionLoop
    \/ ChatCompletionAttempt

\* ------------------------------------------------ Detector.detect

\* signal.content['type'], "multimodal_bad" being a multimodal content whose
\* data is not a list of two
SignalContents == {"text", "image", "multimodal", "multimodal_bad"}

\* what llm_client.chat_completion gives Detector._call_llm_for_intent: an
\* exception, or a text that is no JSON, JSON that is no object (an array, the
\* literal null, a string), or an object whose 'target' is missing, null or a
\* string
NoDetectOutcome == [raised |-> FALSE, json |-> "none", target |-> ""]
DetectLLMOutcomes ==
    { [raised |-> TRUE, json |-> "none", target |-> ""],
      [raised |-> FALSE, json |-> "invalid", target |-> ""],
      [raised |-> FALSE, json |-> "array", target |-> ""],
      [raised |-> FALSE, json |-> "null", target |-> ""],
      [raised |-> FALSE, json |-> "string", target |-> ""] }
    \cup [raised : {FALSE}, json : {"object"},
          target : {"missing", "null", "'null'", "'None'", "'none'", "'translate'"}]

\* the Intent objects detect builds, and None
NoIntent == [is_none |-> TRUE, target |-> "", level |-> "", context |-> ""]
Intent(target, level, ctx) ==
    [is_none |-> FALSE, target |-> target, level |-> level, context |-> ctx]

\* `target is None or target == 'null' or target == 'None'`
IsNoTargetOnlyNull(target) == target = "null"
IsNoTarget(target) == target \in {"null", "'null'", "'None'"}

\* response_data.get('target', 'unknown')
GetTarget(llm) == IF llm.target = "missing" THEN "'unknown'" ELSE llm.target

\* Detector._parse_llm_response: .get on what is not a JSON object raises an
\* AttributeError, which its `except json.JSONDecodeError` lets through
DetectorParseRaises(llm) == llm.json \notin {"invalid", "object"}

\* Detector._parse_llm_response when it returns: None or an Intent
DetectorParseLLMResponse(llm, content) ==
    IF llm.json = "invalid" THEN Intent("'process text'", "Notify", content)
    ELSE IF IsNoTarget(GetTarget(llm)) THEN NoIntent
    ELSE Intent(GetTarget(llm), "Notify", content)

\* the Intent of detect's except clause
ErrorIntent == Intent("[ERROR]", "Notify", "str(e)")

InitDetector ==
    /\ d_pc = "idle"
    /\ d_content = ""
    /\ d_llm = NoDetectOutcome
    /\ d_intent = NoIntent
    /\ d_returned = <<>>

\* detect(signal) is called
DetectorEnter ==
    /\ d_pc = "idle"
    /\ Len(d_returned) < MaxDetectCalls
    /\ \E content \in SignalContents : d_content' = content
    /\ d_pc' = "llm"
    /\ d_llm' = NoDetectOutcome
    /\ d_intent' = NoIntent
    /\ UNCHANGED d_returned
    /\ UNCHANGED notDetVars

\* _call_llm_for_intent: the assert on a multimodal content fails, or
\* chat_completion raises or gives a text
DetectorCallLLM ==
    /\ d_pc = "llm"
    /\ IF d_content = "multimodal_bad"
       THEN d_pc' = "except" /\ UNCHANGED d_llm
       ELSE \E llm \in DetectLLMOutcomes :
               /\ d_llm' = llm
               /\ d_pc' = IF llm.raised THEN "except" ELSE "parse"
    /\ UNCHANGED <<d_content, d_intent, d_returned>>
    /\ UNCHANGED notDetVars

\* _parse_llm_response returns or raises into detect's try
DetectorParse ==
    /\ d_pc = "parse"
    /\ IF DetectorParseRaises(d_llm)
       THEN d_pc' = "except" /\ UNCHANGED d_intent
       ELSE d_pc' = "return" /\ d_intent' = DetectorParseLLMResponse(d_llm, d_content)
    /\ UNCHANGED <<d_content, d_llm, d_returned>>
    /\ UNCHANGED notDetVars

\* except Exception: the default Intent
DetectorExcept ==
    /\ d_pc = "except"
    /\ d_intent' = ErrorIntent
    /\ d_pc' = "return"
    /\ UNCHANGED <<d_content, d_llm, d_returned>>
    /\ UNCHANGED notDetVars

\* return None / return intent
DetectorReturn ==
    /\ d_pc = "return"
    /\ d_returned' = Append(d_returned,
                            [content |-> d_content, llm |-> d_llm, intent |-> d_intent])
    /\ d_pc' = "idle"
    /\ UNCHANGED <<d_content, d_llm, d_intent>>
    /\ UNCHANGED notDetVars

NextDetector ==
    \/ DetectorEnter
    \/ DetectorCallLLM
    \/ DetectorParse
    \/ DetectorExcept
    \/ DetectorReturn

\* ------------------------------------------------ ToolExecutor.execute

\* ToolManager.tools: every loaded tool, enabled or not
RegisteredTools == {"calculator", "translator"}
ToolNames == RegisteredTools \cup {"nosuch"}

\* get_schema()['required'] and the keyword arguments execute accepts
RequiredParams(tool) == IF tool = "calculator" THEN {"expression"} ELSE {"text"}
AcceptedParams(tool) ==
    IF tool = "calculator" THEN {"expression", "mode"} ELSE {"text", "target_lang"}

\* params as the LLM response gave them: a dict with these keys, or not a dict
ParamKeys == {"expression", "mode", "text"}
NotADict == [is_dict |-> FALSE, keys |-> {}]
ToolParams == {NotADict} \cup {[is_dict |-> TRUE, keys |-> K] : K \in SUBSET ParamKeys}

\* what a tool's execute can give back: None, a string, or a mapping with some
\* of these keys, listed in the order the mapping holds them; at most one value
\* of the mapping is None, the others are strings
KeyOrder == <<"expression", "content", "value", "result", "answer", "message", "text",
              "translated_text", "error", "success", "_meta">>
ResultKeys == {KeyOrder[i] : i \in DOMAIN KeyOrder}
NoKey == "no key"
NoToolResult == [kind |-> "unset", keys |-> {}, none |-> NoKey]
NoneResult == [kind |-> "None", keys |-> {}, none |-> NoKey]
StringResult == [kind |-> "str", keys |-> {}, none |-> NoKey]
DictResults ==
    {[kind |-> "dict", keys |-> K, none |-> n] : K \in SUBSET ResultKeys, n \in ResultKeys \cup {NoKey}}
ToolResults ==
    {NoneResult, StringResult} \cup {r \in DictResults : r.none \in r.keys \cup {NoKey}}

\* str(result[key])
StrValue(r, key) == IF r.none = key THEN "None" ELSE key

\* ToolManager.is_tool_enabled
IsToolEnabled(tool_name) == tool_name \in t_enabled

\* ToolManager.get: None unless registered and enabled
ManagerGet(tool_name) == tool_name \in RegisteredTools /\ tool_name \in t_enabled

\* ToolExecutor._validate_params
ValidateParams(tool_name, params) == params.is_dict /\ ManagerGet(tool_name)

\* ToolManager._validate_params: every required parameter is in params
ManagerValidateParamsNoSchema(tool, params) == TRUE
ManagerValidateParams(tool, params) == RequiredParams(tool) \subseteq params.keys

\* ToolExecutor._extract_text_from_result
DisplayFieldsTextFirst ==
    <<"text", "translated_text", "message", "answer", "result", "value", "content">>
DisplayFields ==
    <<"translated_text", "text", "message", "answer", "result", "value", "content">>

RECURSIVE FirstDisplayField(_, _)
FirstDisplayField(r, i) ==
    IF i > Len(DisplayFields) THEN NoKey
    ELSE IF DisplayFields[i] \in r.keys THEN DisplayFields[i]
    ELSE FirstDisplayField(r, i + 1)

SkippedKey(key) == key = "_meta" \/ key = "success"

RECURSIVE FormattedPairs(_, _)
FormattedPairs(r, i) ==
    IF i > Len(KeyOrder) THEN <<>>
    ELSE (IF KeyOrder[i] \in r.keys /\ ~SkippedKey(KeyOrder[i])
          THEN <<[key |-> KeyOrder[i], value |-> StrValue(r, KeyOrder[i])]>>
          ELSE <<>>) \o FormattedPairs(r, i + 1)

ExtractTextFromResult(r) ==
    IF r.kind = "dict"
    THEN LET field == FirstDisplayField(r, 1) IN
         IF field # NoKey THEN [form |-> "value", text |-> StrValue(r, field), pairs |-> <<>>]
         ELSE IF "error" \in r.keys
         THEN [form |-> "Error: ", text |-> StrValue(r, "error"), pairs |-> <<>>]
         ELSE IF FormattedPairs(r, 1) # <<>>
         THEN [form |-> "key: value lines", text |-> "", pairs |-> FormattedPairs(r, 1)]
         ELSE [form |-> "str(result)", text |-> "", pairs |-> <<>>]
    ELSE IF r.kind = "None" THEN [form |-> "value", text |-> "No result", pairs |-> <<>>]
    ELSE [form |-> "str(result)", text |-> "", pairs |-> <<>>]

\* the f-strings execute, _handle_error and _handle_timeout return
ToolObservation(form, text) == [form |-> form, text |-> text, pairs |-> <<>>]
NoObservation == ToolObservation("", "")
ToolDisabled(tool_name) == ToolObservation("Error: ", "is currently disabled")
ToolNotFound(tool_name) == ToolObservation("Error: ", "not found")
ToolInvalidParams(tool_name) == ToolObservation("Error: ", "Invalid parameters for tool")
ToolHandleError(error, tool_name) == ToolObservation("Error executing tool", error)
ToolHandleTimeout(tool_name) == ToolObservation("execution timed out", "")

InitTool ==
    /\ t_pc = "enabled?"
    /\ t_enabled \in SUBSET RegisteredTools
    /\ t_name \in ToolNames
    /\ t_params \in ToolParams
    /\ t_result = NoToolResult
    /\ t_exc = ""
    /\ t_invoked = FALSE
    /\ t_observation = NoObservation

\* `if not self.tool_manager.is_tool_enabled(tool_name)`
ToolCheckEnabled ==
    /\ t_pc = "enabled?"
    /\ IF IsToolEnabled(t_name)
       THEN t_pc' = "validate" /\ UNCHANGED t_observation
       ELSE /\ t_pc' = "returned"
            /\ t_observation' = IF t_name \in RegisteredTools
                                THEN ToolDisabled(t_name) ELSE ToolNotFound(t_name)
    /\ UNCHANGED <<t_enabled, t_name, t_params, t_result, t_exc, t_invoked>>
    /\ UNCHANGED notToolVars

\* `if not self._validate_params(tool_name, params)`
ToolValidate ==
    /\ t_pc = "validate"
    /\ IF ValidateParams(t_name, t_params)
       THEN t_pc' = "manager" /\ UNCHANGED t_observation
       ELSE t_pc' = "returned" /\ t_observation' = ToolInvalidParams(t_name)
    /\ UNCHANGED <<t_enabled, t_name, t_params, t_result, t_exc, t_invoked>>
    /\ UNCHANGED notToolVars

\* ToolManager.execute up to the call of the tool: ValueError for a tool that
\* get() does not give or for a missing required parameter
ToolManagerExecute ==
    /\ t_pc = "manager"
    /\ IF ManagerGet(t_name) /\ ManagerValidateParams(t_name, t_params)
       THEN t_pc' = "invoke" /\ UNCHANGED t_exc
       ELSE t_pc' = "except" /\ t_exc' = "ValueError"
    /\ UNCHANGED <<t_enabled, t_name, t_params, t_result, t_invoked, t_observation>>
    /\ UNCHANGED notToolVars

\* `result = tool.execute(**params)`: TypeError for a keyword the tool does not
\* take, else the tool runs and returns, raises or times out
ToolInvoke ==
    /\ t_pc = "invoke"
    /\ IF ~(t_params.keys \subseteq AcceptedParams(t_name))
       THEN /\ t_pc' = "except" /\ t_exc' = "TypeError"
            /\ UNCHANGED <<t_result, t_invoked>>
       ELSE /\ t_invoked' = TRUE
            /\ \/ \E r \in ToolResults :
                    t_result' = r /\ t_pc' = "extract" /\ UNCHANGED t_exc
               \/ \E e \in {"RuntimeError", "TimeoutError"} :
                    t_exc' = e /\ t_pc' = "except" /\ UNCHANGED t_result
    /\ UNCHANGED <<t_enabled, t_name, t_params, t_observation>>
    /\ UNCHANGED notToolVars

\* `observation = self._extract_text_from_result(result)` and the return
ToolExtract ==
    /\ t_pc = "extract"
    /\ t_observation' = ExtractTextFromResult(t_result)
    /\ t_pc' = "returned"
    /\ UNCHANGED <<t_enabled, t_name, t_params, t_result, t_exc, t_invoked>>
    /\ UNCHANGED notToolVars

\* `except TimeoutError` and `except Exception`
ToolExcept ==
    /\ t_pc = "except"
    /\ t_observation' = IF t_exc = "TimeoutError" THEN ToolHandleTimeout(t_name)
                        ELSE ToolHandleError(t_exc, t_name)
    /\ t_pc' = "returned"
    /\ UNCHANGED <<t_enabled, t_name, t_params, t_result, t_exc, t_invoked>>
    /\ UNCHANGED notToolVars

NextTool ==
    \/ ToolCheckEnabled
    \/ ToolValidate
    \/ ToolManagerExecute
    \/ ToolInvoke
    \/ ToolExcept
    \/ ToolExtract


\* ------------------------------------------------ ToolManager: enabling tools

\* enabled_tools after ToolManager.enable_tool(tool_name)
EnableToolUnchecked(tools, enabled, tool_name) == enabled \cup {tool_name}
EnableToolResult(tools, enabled, tool_name) ==
    IF tool_name \notin tools THEN enabled
    ELSE IF tool_name \in enabled THEN enabled
    ELSE enabled \cup {tool_name}

\* enabled_tools after ToolManager.disable_tool(tool_name)
DisableToolResult(tools, enabled, tool_name) ==
    IF tool_name \notin tools THEN enabled
    ELSE IF tool_name \notin enabled THEN enabled
    ELSE enabled \ {tool_name}

InitManager ==
    /\ m_tools = {}
    /\ m_enabled = {}
    /\ m_pc = "idle"
    /\ m_name = ""
    /\ m_is_dict = TRUE
    /\ m_invoked = {}

\* ToolManager.register(tool) for a tool with a name and an execute method
ManagerRegister(tool_name) ==
    /\ m_pc = "idle"
    /\ m_tools' = m_tools \cup {tool_name}
    /\ UNCHANGED <<m_enabled, m_pc, m_name, m_is_dict, m_invoked>>
    /\ UNCHANGED notMgrVars

\* ToolManager._load_tool_from_config: when _create_tool_instance gives a tool
\* it is registered, and added to enabled_tools if the configuration enables it
LoadToolFromConfig(tool_name, enabled, created) ==
    /\ m_pc = "idle"
    /\ IF created
       THEN /\ m_tools' = m_tools \cup {tool_name}
            /\ m_enabled' = IF enabled THEN m_enabled \cup {tool_name} ELSE m_enabled
       ELSE UNCHANGED <<m_tools, m_enabled>>
    /\ UNCHANGED <<m_pc, m_name, m_is_dict, m_invoked>>
    /\ UNCHANGED notMgrVars

\* ToolManager.enable_tool
EnableTool(tool_name) ==
    /\ m_pc = "idle"
    /\ m_enabled' = EnableToolResult(m_tools, m_enabled, tool_name)
    /\ UNCHANGED <<m_tools, m_pc, m_name, m_is_dict, m_invoked>>
    /\ UNCHANGED notMgrVars

\* ToolManager.disable_tool
DisableTool(tool_name) ==
    /\ m_pc = "idle"
    /\ m_enabled' = DisableToolResult(m_tools, m_enabled, tool_name)
    /\ UNCHANGED <<m_tools, m_pc, m_name, m_is_dict, m_invoked>>
    /\ UNCHANGED notMgrVars

\* ToolManager.get on the manager as it is now
ManagerGetNow(tool_name) == tool_name \in m_tools /\ tool_name \in m_enabled

\* ToolExecutor.execute(tool_name, params) is called
ExecuteCall(tool_name, is_dict) ==
    /\ m_pc = "idle"
    /\ m_pc' = "enabled?"
    /\ m_name' = tool_name
    /\ m_is_dict' = is_dict
    /\ UNCHANGED <<m_tools, m_enabled, m_invoked>>
    /\ UNCHANGED notMgrVars

\* `if not self.tool_manager.is_tool_enabled(tool_name)`: an error text is
\* returned for a tool that is disabled or not found
ExecuteCheckEnabled ==
    /\ m_pc = "enabled?"
    /\ m_pc' = IF m_name \in m_enabled THEN "validate" ELSE "idle"
    /\ UNCHANGED <<m_tools, m_enabled, m_name, m_is_dict, m_invoked>>
    /\ UNCHANGED notMgrVars

\* `if not self._validate_params(tool_name, params)`
ExecuteValidate ==
    /\ m_pc = "validate"
    /\ m_pc' = IF m_is_dict /\ ManagerGetNow(m_name) THEN "manager" ELSE "idle"
    /\ UNCHANGED <<m_tools, m_enabled, m_name, m_is_dict, m_invoked>>
    /\ UNCHANGED notMgrVars

\* ToolManager.execute up to the call of the tool: get() and _validate_params;
\* their ValueError is turned into an error text by execute's except clause
ExecuteManagerGet ==
    /\ m_pc = "manager"
    /\ \E params_ok \in BOOLEAN :
          m_pc' = IF ManagerGetNow(m_name) /\ params_ok THEN "invoke" ELSE "idle"
    /\ UNCHANGED <<m_tools, m_enabled, m_name, m_is_dict, m_invoked>>
    /\ UNCHANGED notMgrVars

\* `result = tool.execute(**params)`; whatever the tool does, execute returns a text
ExecuteInvokeTool ==
    /\ m_pc = "invoke"
    /\ m_invoked' = m_invoked \cup {m_name}
    /\ m_pc' = "idle"
    /\ UNCHANGED <<m_tools, m_enabled, m_name, m_is_dict>>
    /\ UNCHANGED notMgrVars

\* the calls of a sequence, one after the other
NextManager ==
    \/ \E tool_name \in RegisteredTools : ManagerRegister(tool_name)
    \/ \E tool_name \in RegisteredTools, enabled \in BOOLEAN, created \in BOOLEAN :
          LoadToolFromConfig(tool_name, enabled, created)
    \/ \E tool_name \in ToolNames : EnableTool(tool_name)
    \/ \E tool_name \in ToolNames : DisableTool(tool_name)
    \/ \E tool_name \in ToolNames, is_dict \in BOOLEAN : ExecuteCall(tool_name, is_dict)
    \/ ExecuteCheckEnabled
    \/ ExecuteValidate
    \/ ExecuteManagerGet
    \/ ExecuteInvokeTool


\* ------------------------------------------------------------ Pipeline

Producers == {"clipboard", "screenshot"}
\* a consumer thread and the one a later start() makes while the first still runs;
\* an id is used again once its thread has ended
ThreadIds == {"thread-1", "thread-2"}
NoThreadId == "none"
Levels == {"Notify", "Review"}

\* what llm_client.chat_completion gives Classifier._call_llm_for_classification:
\* an exception, or a text (maybe in a ``` fence) that is no JSON, JSON that is
\* no object, or an object whose 'level' is missing, null or some string
NoLLMOutcome == [raised |-> FALSE, fenced |-> FALSE, json |-> "none", level |-> ""]
ClassifyLLMOutcomes ==
    { [raised |-> TRUE, fenced |-> FALSE, json |-> "none", level |-> ""],
      [raised |-> FALSE, fenced |-> FALSE, json |-> "invalid", level |-> ""],
      [raised |-> FALSE, fenced |-> FALSE, json |-> "array", level |-> ""],
      [raised |-> FALSE, fenced |-> FALSE, json |-> "object", level |-> "missing"],
      [raised |-> FALSE, fenced |-> FALSE, json |-> "object", level |-> "null"],
      [raised |-> FALSE, fenced |-> FALSE, json |-> "object", level |-> "review"],
      [raised |-> FALSE, fenced |-> FALSE, json |-> "object", level |-> "Notify"],
      [raised |-> FALSE, fenced |-> FALSE, json |-> "object", level |-> " Review "],
      [raised |-> FALSE, fenced |-> TRUE, json |-> "object", level |-> "Review"] }

\* str.strip() on the level strings above
StripLevel(level) == IF level = " Review " THEN "Review" ELSE level

\* Classifier._parse_llm_classification: the level, or "raise"
ValidLevelsNotChecked(level) == TRUE
ValidLevels(level) == level \in {"Notify", "Review"}
ParseLLMClassification(llm) ==
    IF llm.json # "object" THEN "raise"
    ELSE IF llm.level = "null" THEN "raise"
    ELSE LET level == IF llm.level = "missing" THEN "" ELSE StripLevel(llm.level)
         IN IF ValidLevels(level) THEN level ELSE "raise"

\* Classifier.classify: the level it returns and assigns to intent.level
Classify(llm) ==
    IF llm.raised THEN "Notify"
    ELSE LET level == ParseLLMClassification(llm)
         IN IF level = "raise" THEN "Notify" ELSE level

InitClassifier ==
    /\ c_pc = "idle"
    /\ c_llm = NoLLMOutcome
    /\ c_local = ""
    /\ c_level = ""
    /\ c_returned = <<>>

\* classify(intent) is called with an intent the Detector made (level 'Notify')
ClassifyEnter ==
    /\ c_pc = "idle"
    /\ Len(c_returned) < MaxClassifyCalls
    /\ c_pc' = "llm"
    /\ c_level' = "Notify"
    /\ c_llm' = NoLLMOutcome
    /\ c_local' = ""
    /\ UNCHANGED c_returned
    /\ UNCHANGED notClassVars

\* _call_llm_for_classification: chat_completion raises or gives a text
ClassifyCallLLM ==
    /\ c_pc = "llm"
    /\ \E llm \in ClassifyLLMOutcomes :
          /\ c_llm' = llm
          /\ c_pc' = IF llm.raised THEN "except" ELSE "parse"
    /\ UNCHANGED <<c_local, c_level, c_returned>>
    /\ UNCHANGED notClassVars

\* _parse_llm_classification returns the level or raises into classify's try
ClassifyParse ==
    /\ c_pc = "parse"
    /\ LET level == ParseLLMClassification(c_llm)
       IN IF level = "raise"
          THEN c_pc' = "except" /\ UNCHANGED c_local
          ELSE c_pc' = "assign" /\ c_local' = level
    /\ UNCHANGED <<c_llm, c_level, c_returned>>
    /\ UNCHANGED notClassVars

\* except Exception: level = 'Notify'
ClassifyExcept ==
    /\ c_pc = "except"
    /\ c_local' = "Notify"
    /\ c_pc' = "assign"
    /\ UNCHANGED <<c_llm, c_level, c_returned>>
    /\ UNCHANGED notClassVars

\* intent.level = level; return level
ClassifyReturn ==
    /\ c_pc = "assign"
    /\ c_level' = c_local
    /\ c_returned' = Append(c_returned, [llm |-> c_llm, level |-> c_local])
    /\ c_pc' = "idle"
    /\ UNCHANGED <<c_llm, c_local>>
    /\ UNCHANGED notClassVars

NextClassifier ==
    \/ ClassifyEnter
    \/ ClassifyCallLLM
    \/ ClassifyParse
    \/ ClassifyExcept
    \/ ClassifyReturn

NoThread == [pc |-> "unborn", signal |-> 0, classify |-> "idle", react |-> "idle",
             level |-> "Notify"]

\* queue.Queue(maxsize): put() waits while qsize() >= maxsize (maxsize > 0)
QueueFullOffByOne(q) == queue_size > 0 /\ Len(q) > queue_size
QueueFull(q) == queue_size > 0 /\ Len(q) >= queue_size

\* `if intent is None: return` in _handle_signal
SkipsSignalNever(intent) == FALSE
SkipsSignal(intent) == intent = "None"

\* the thread ids inside _handle_signal
InHandleSignal == {t \in ThreadIds : threads[t].pc \in {"detect", "pool"}}

\* Formatter.format and SessionBuilder.build on the joined results
BuildSession(signal, level) ==
    [signal |-> signal,
     built |-> SessionBuilderBuild(FormatterFormat(level), DefaultReviewTurns)]
NoSession == [signal |-> 0, built |-> Unbuilt]

InitPipeline ==
    /\ queue_size \in 1..MaxQueueSize
    /\ signal_queue = <<>>
    /\ is_running = FALSE
    /\ processing_thread = NoThreadId
    /\ threads = [t \in ThreadIds |-> NoThread]
    /\ ctl = "idle"
    /\ producers = [p \in Producers |-> [pc |-> "idle", signal |-> 0]]
    /\ next_signal = 1
    /\ engine_ready \in BOOLEAN
    /\ enqueued = <<>>
    /\ dropped = {}
    /\ route_raised = {}
    /\ handled = <<>>
    /\ no_intent = {}
    /\ classify_calls = {}
    /\ react_calls = {}
    /\ session = NoSession
    /\ inbox = {}

\* Pipeline.start
Start ==
    /\ ctl = "idle"
    /\ ~is_running
    /\ \E t \in ThreadIds :
          /\ threads[t].pc \in {"unborn", "exited"}
          /\ t = "thread-2" => threads["thread-1"].pc \notin {"unborn", "exited"}
          /\ threads' = [threads EXCEPT ![t] = [NoThread EXCEPT !.pc = "loop"]]
          /\ processing_thread' = t
    /\ is_running' = TRUE
    /\ UNCHANGED notPipeVars
    /\ UNCHANGED <<queue_size, signal_queue, ctl, producers, next_signal, engine_ready,
                   enqueued, dropped, route_raised, handled, no_intent, classify_calls,
                   react_calls, session, inbox>>

\* Pipeline.stop up to processing_thread.join(timeout=2)
Stop ==
    /\ ctl = "idle"
    /\ is_running
    /\ is_running' = FALSE
    /\ ctl' = IF processing_thread # NoThreadId /\ threads[processing_thread].pc # "exited"
              THEN "joining" ELSE "idle"
    /\ UNCHANGED notPipeVars
    /\ UNCHANGED <<queue_size, signal_queue, processing_thread, threads, producers,
                   next_signal, engine_ready, enqueued, dropped, route_raised, handled,
                   no_intent, classify_calls, react_calls, session, inbox>>

\* join returns because the thread ended
StopJoined ==
    /\ ctl = "joining"
    /\ threads[processing_thread].pc = "exited"
    /\ ctl' = "idle"
    /\ UNCHANGED notPipeVars
    /\ UNCHANGED <<queue_size, signal_queue, is_running, processing_thread, threads,
                   producers, next_signal, engine_ready, enqueued, dropped, route_raised,
                   handled, no_intent, classify_calls, react_calls, session, inbox>>

\* join gives up after 2 seconds: the thread is still inside _handle_signal (a
\* thread waiting in get(timeout=0.5) has seen is_running by then)
StopJoinTimeout ==
    /\ ctl = "joining"
    /\ processing_thread \in InHandleSignal
    /\ ctl' = "idle"
    /\ UNCHANGED notPipeVars
    /\ UNCHANGED <<queue_size, signal_queue, is_running, processing_thread, threads,
                   producers, next_signal, engine_ready, enqueued, dropped, route_raised,
                   handled, no_intent, classify_calls, react_calls, session, inbox>>

\* Pipeline.route_signal: put(signal, block=True, timeout=1.0) with room
RouteSignal(p) ==
    /\ producers[p].pc = "idle"
    /\ next_signal <= MaxSignals
    /\ next_signal' = next_signal + 1
    /\ IF QueueFull(signal_queue)
       THEN /\ producers' = [producers EXCEPT ![p] = [pc |-> "waiting", signal |-> next_signal]]
            /\ UNCHANGED <<signal_queue, enqueued>>
       ELSE /\ signal_queue' = Append(signal_queue, next_signal)
            /\ enqueued' = Append(enqueued, next_signal)
            /\ UNCHANGED producers
    /\ UNCHANGED notPipeVars
    /\ UNCHANGED <<queue_size, is_running, processing_thread, threads, ctl, engine_ready,
                   dropped, route_raised, handled, no_intent, classify_calls, react_calls,
                   session, inbox>>

\* a put() that was waiting finds room
RoutePutProceeds(p) ==
    /\ producers[p].pc = "waiting"
    /\ ~QueueFull(signal_queue)
    /\ signal_queue' = Append(signal_queue, producers[p].signal)
    /\ enqueued' = Append(enqueued, producers[p].signal)
    /\ producers' = [producers EXCEPT ![p] = [pc |-> "idle", signal |-> 0]]
    /\ UNCHANGED notPipeVars
    /\ UNCHANGED <<queue_size, is_running, processing_thread, threads, ctl, next_signal,
                   engine_ready, dropped, route_raised, handled, no_intent,
                   classify_calls, react_calls, session, inbox>>

\* the wait ran out with the queue still full: queue.Full is caught and logged
RouteDrop(p) ==
    /\ producers[p].pc = "waiting"
    /\ QueueFull(signal_queue)
    /\ dropped' = dropped \cup {producers[p].signal}
    /\ producers' = [producers EXCEPT ![p] = [pc |-> "idle", signal |-> 0]]
    /\ UNCHANGED notPipeVars
    /\ UNCHANGED <<queue_size, signal_queue, is_running, processing_thread, threads, ctl,
                   next_signal, engine_ready, enqueued, route_raised, handled, no_intent,
                   classify_calls, react_calls, session, inbox>>

\* _process_signals: `while self.is_running`
LoopCheck(t) ==
    /\ threads[t].pc = "loop"
    /\ threads' = [threads EXCEPT ![t].pc = IF is_running THEN "get" ELSE "exited"]
    /\ UNCHANGED notPipeVars
    /\ UNCHANGED <<queue_size, signal_queue, is_running, processing_thread, ctl,
                   producers, next_signal, engine_ready, enqueued, dropped, route_raised,
                   handled, no_intent, classify_calls, react_calls, session, inbox>>

\* signal = self.signal_queue.get(block=True, timeout=0.5)
Get(t) ==
    /\ threads[t].pc = "get"
    /\ signal_queue # <<>>
    /\ threads' = [threads EXCEPT ![t].pc = "got", ![t].signal = Head(signal_queue)]
    /\ signal_queue' = Tail(signal_queue)
    /\ UNCHANGED notPipeVars
    /\ UNCHANGED <<queue_size, is_running, processing_thread, ctl, producers,
                   next_signal, engine_ready, enqueued, dropped, route_raised, handled,
                   no_intent, classify_calls, react_calls, session, inbox>>

\* queue.Empty: continue
GetEmpty(t) ==
    /\ threads[t].pc = "get"
    /\ signal_queue = <<>>
    /\ threads' = [threads EXCEPT ![t].pc = "loop"]
    /\ UNCHANGED notPipeVars
    /\ UNCHANGED <<queue_size, signal_queue, is_running, processing_thread, ctl,
                   producers, next_signal, engine_ready, enqueued, dropped, route_raised,
                   handled, no_intent, classify_calls, react_calls, session, inbox>>

\* self._handle_signal(signal): entry and the components check
HandleSignal(t) ==
    /\ threads[t].pc = "got"
    /\ handled' = Append(handled, threads[t].signal)
    /\ threads' = [threads EXCEPT ![t].pc = IF engine_ready THEN "detect" ELSE "loop"]
    /\ UNCHANGED notPipeVars
    /\ UNCHANGED <<queue_size, signal_queue, is_running, processing_thread, ctl,
                   producers, next_signal, engine_ready, enqueued, dropped, route_raised,
                   no_intent, classify_calls, react_calls, session, inbox>>

\* intent = self.detector.detect(signal); on an intent both tasks are submitted
Detect(t) ==
    /\ threads[t].pc = "detect"
    /\ \E intent \in {"None", "Intent"} :
          IF SkipsSignal(intent)
          THEN /\ no_intent' = no_intent \cup {threads[t].signal}
               /\ threads' = [threads EXCEPT ![t].pc = "loop"]
               /\ UNCHANGED <<classify_calls, react_calls>>
          ELSE /\ no_intent' = IF intent = "None" THEN no_intent \cup {threads[t].signal}
                                                  ELSE no_intent
               /\ threads' = [threads EXCEPT ![t].pc = "pool", ![t].classify = "running",
                                             ![t].react = "running", ![t].level = "Notify"]
               /\ classify_calls' = classify_calls \cup {threads[t].signal}
               /\ react_calls' = react_calls \cup {threads[t].signal}
    /\ UNCHANGED notPipeVars
    /\ UNCHANGED <<queue_size, signal_queue, is_running, processing_thread, ctl,
                   producers, next_signal, engine_ready, enqueued, dropped, route_raised,
                   handled, session, inbox>>

\* Classifier.classify returns in its worker: intent.level = level
ClassifyReturns(t) ==
    /\ threads[t].pc = "pool"
    /\ threads[t].classify = "running"
    /\ \E level \in {Classify(llm) : llm \in ClassifyLLMOutcomes} :
          threads' = [threads EXCEPT ![t].classify = "done", ![t].level = level]
    /\ UNCHANGED notPipeVars
    /\ UNCHANGED <<queue_size, signal_queue, is_running, processing_thread, ctl,
                   producers, next_signal, engine_ready, enqueued, dropped, route_raised,
                   handled, no_intent, classify_calls, react_calls, session, inbox>>

\* ReactAgent.execute returns or raises in its worker
ReactReturns(t) ==
    /\ threads[t].pc = "pool"
    /\ threads[t].react = "running"
    /\ \E outcome \in {"returned", "raised"} :
          threads' = [threads EXCEPT ![t].react = outcome]
    /\ UNCHANGED notPipeVars
    /\ UNCHANGED <<queue_size, signal_queue, is_running, processing_thread, ctl,
                   producers, next_signal, engine_ready, enqueued, dropped, route_raised,
                   handled, no_intent, classify_calls, react_calls, session, inbox>>

\* the as_completed loop and the with block's shutdown(wait=True) let the
\* consumer go on only when both futures are done
ReactDoneOnly(th) == th.react # "running"
BothDone(th) == th.classify = "done" /\ th.react # "running"

\* `react_result = future.result()` gives the result instead of re-raising
ReactSucceededAlways(th) == TRUE
ReactSucceeded(th) == th.react = "returned"

\* the with block ends when both futures are done: format, build, add_session,
\* or the except clause when future_react.result() raised; then task_done()
JoinAndDeliver(t) ==
    /\ threads[t].pc = "pool"
    /\ BothDone(threads[t])
    /\ IF ReactSucceeded(threads[t])
       THEN /\ session' = BuildSession(threads[t].signal, threads[t].level)
            /\ inbox' = inbox \cup {threads[t].signal}
       ELSE UNCHANGED <<session, inbox>>
    /\ threads' = [threads EXCEPT ![t].pc = "loop", ![t].classify = "idle",
                                  ![t].react = "idle", ![t].level = "Notify"]
    /\ UNCHANGED notPipeVars
    /\ UNCHANGED <<queue_size, signal_queue, is_running, processing_thread, ctl,
                   producers, next_signal, engine_ready, enqueued, dropped, route_raised,
                   handled, no_intent, classify_calls, react_calls>>

NextPipeline ==
    \/ Start
    \/ Stop
    \/ StopJoined
    \/ StopJoinTimeout
    \/ \E p \in Producers : RouteSignal(p)
    \/ \E p \in Producers : RoutePutProceeds(p)
    \/ \E p \in Producers : RouteDrop(p)
    \/ \E t \in ThreadIds : LoopCheck(t)
    \/ \E t \in ThreadIds : Get(t)
    \/ \E t \in ThreadIds : GetEmpty(t)
    \/ \E t \in ThreadIds : HandleSignal(t)
    \/ \E t \in ThreadIds : Detect(t)
    \/ \E t \in ThreadIds : ClassifyReturns(t)
    \/ \E t \in ThreadIds : ReactReturns(t)
    \/ \E t \in ThreadIds : JoinAndDeliver(t)

\* -------------------------------------------------- Session, Handler, Inbox

\* the uuids of the Sessions built
SessionIds == {"session-1", "session-2"}
\* Inbox.current_session_id = None
NoCurrentSession == "none"
UserTexts == {"/finish", " /Finish ", "hello"}
FinishedText == "You have finished this conversation."
\* a QTimer handle_session started, one _try_auto_finalize started, one that fired
TimerStates == {"none", "scheduled", "rescheduled", "fired"}
TimerPending(timer) == timer \in {"scheduled", "rescheduled"}

\* user_message.strip().lower()
StripLowerMissing(text) == text
StripLower(text) == IF text = " /Finish " THEN "/finish" ELSE text

\* the two dicts on_user_input appends for /finish
FinishMessage == UserTurn("/finish")
FinishMessageToUserEcho == UserTurn("/finish")
FinishMessageToUser == UserTurn(FinishedText)

\* the button selections the Inbox sends, and user_message[3:-3] of each
ButtonTexts == {"<||Yes||>", "<||OK||>", "<||No||>", "<||Cancel||>"}
ButtonInner(text) ==
    CASE text = "<||Yes||>" -> "Yes"
      [] text = "<||OK||>" -> "OK"
      [] text = "<||No||>" -> "No"
      [] text = "<||Cancel||>" -> "Cancel"
      [] OTHER -> text

\* button_text.strip().lower() on the words above
ButtonLower(word) ==
    CASE word = "Yes" -> "yes"
      [] word = "OK" -> "ok"
      [] word = "No" -> "no"
      [] word = "Cancel" -> "cancel"
      [] OTHER -> word

ApprovedText == "User approved to confirm this message."
RejectedText == "User rejected this message."

\* Handler._handle_button_content_to_message: the lower-cased text is looked up
\* in lists of capitalised words
HandleButtonContentToMessage(button_text) ==
    LET btx == ButtonLower(button_text) IN
    IF btx \in {"Yes", "Approve", "Confirm", "OK"} THEN ApprovedText
    ELSE IF btx \in {"No", "Reject", "Dismiss", "Cancel"} THEN RejectedText
    ELSE button_text

\* the text on_user_input appends for a message that is not /finish
UserMessageText(text) ==
    IF text \in ButtonTexts
    THEN HandleButtonContentToMessage(ButtonInner(text))
    ELSE text

\* Session.add_message
AddMessageOnlyMessages(sess, message, message_to_user) ==
    [sess EXCEPT !.messages = Append(@, message)]
AddMessage(sess, message, message_to_user) ==
    [sess EXCEPT !.messages = Append(@, message),
                 !.messages_to_user = Append(@, message_to_user)]

\* Session.update_status, mark_as_read, mark_as_unread
UpdateStatus(sess, status) == [sess EXCEPT !.status = status]
MarkAsRead(sess) == [sess EXCEPT !.is_read = TRUE]
MarkAsUnread(sess) == [sess EXCEPT !.is_read = FALSE]

\* Inbox._on_session_updated, the slot of Handler.session_updated
OnSessionUpdated(sess, s, current) == IF current = s THEN MarkAsRead(sess) ELSE sess

\* Handler._append_message
AppendMessage(sess, s, current, message, message_to_user) ==
    LET added == AddMessage(sess, message, message_to_user)
    IN IF message.role = "assistant"
       THEN OnSessionUpdated(MarkAsUnread(added), s, current)
       ELSE added

\* Handler._check_continuation
CheckContinuation(sess) ==
    IF sess.max_turns = 0 THEN FALSE
    ELSE IF sess.max_turns = -1 THEN TRUE
    ELSE Cardinality({i \in DOMAIN sess.messages : sess.messages[i].role = "user"})
            < sess.max_turns

\* Handler.finalize_session on the Session object, then Inbox._on_session_completed
FinalizedKeepsStatus(sess) == sess
Finalized(sess) == UpdateStatus(UpdateStatus(sess, "completed"), "completed")

\* a ReactWorkerThread before run() and after it
NewWorkerNeverRun(s) == [session |-> s, pc |-> "done", payload |-> <<>>, user_query |-> ""]
NewWorker(s) == [session |-> s, pc |-> "started", payload |-> <<>>, user_query |-> ""]
DoneWorker(s) == [session |-> s, pc |-> "done", payload |-> <<>>, user_query |-> ""]

InitSession ==
    /\ sessions = [s \in SessionIds |-> Unbuilt]
    /\ active_sessions = {}
    /\ timeout_timers = [s \in SessionIds |-> "none"]
    /\ workers = <<>>
    /\ gui_queue = <<>>
    /\ current_session_id = NoCurrentSession
    /\ max_turns_review \in {DefaultReviewTurns, MaxTurnsReview}
    /\ user_inputs = 0

\* Pipeline._handle_signal's tail: Formatter.format, SessionBuilder.build,
\* inbox.add_session (which only emits session_added_signal)
Build(s, level) ==
    /\ sessions[s].status = "none"
    /\ sessions' = [sessions EXCEPT
                      ![s] = SessionBuilderBuild(FormatterFormat(level), max_turns_review)]
    /\ UNCHANGED <<active_sessions, timeout_timers, workers, gui_queue,
                   current_session_id, max_turns_review, user_inputs>>
    /\ UNCHANGED notSessVars
    /\ UNCHANGED reloadVars

\* add_session emits once for each Session built, so the slot dispatches a
\* Session to the Handler once, while it is still pending
DispatchedAgain(sess) == sess.status # "none"
Dispatched(sess) == sess.status = "pending"

\* handle_session: Notify and unknown levels get the auto-finalize timer,
\* Review does not
SchedulesAutoFinalizeAlways(level) == TRUE
SchedulesAutoFinalize(level) == level # "Review"

\* Inbox._add_session_slot -> dispatch_to_handler -> Handler.handle_session
HandleSession(s) ==
    /\ Dispatched(sessions[s])
    /\ active_sessions' = active_sessions \cup {s}
    /\ sessions' = [sessions EXCEPT ![s] = UpdateStatus(@, "active")]
    /\ timeout_timers' = IF SchedulesAutoFinalize(sessions[s].level)
                         THEN [timeout_timers EXCEPT ![s] = "scheduled"]
                         ELSE timeout_timers
    /\ UNCHANGED <<workers, gui_queue, current_session_id, max_turns_review, user_inputs>>
    /\ UNCHANGED notSessVars
    /\ UNCHANGED reloadVars

\* Inbox._on_session_selected
SelectSession(s) ==
    /\ sessions[s].status \notin {"none", "pending"}
    /\ current_session_id' = s
    /\ sessions' = [sessions EXCEPT ![s] = MarkAsRead(@)]
    /\ UNCHANGED <<active_sessions, timeout_timers, workers, gui_queue,
                   max_turns_review, user_inputs>>
    /\ UNCHANGED notSessVars
    /\ UNCHANGED reloadVars

\* no ReactAgent: run() has not called execute_continue yet
NoAgent == -1

\* `react_agent = self.engine_components['react_agent']` in _send_to_engine
SendToEngineAgentOfPipeline == pipeline_react_agent
SendToEngineAgent == engine_components

\* `self.react_agent.execute_continue(self.session)` in ReactWorkerThread.run
WorkerReactAgent(w) == worker_agents[w].react_agent

\* Handler.on_user_input for an active session, the limit-th call at most
OnUserInputUpTo(s, text, limit) ==
    /\ user_inputs < limit
    /\ s \in active_sessions
    /\ user_inputs' = user_inputs + 1
    /\ LET is_finish == StripLower(text) = "/finish"
           message == IF is_finish THEN FinishMessage
                      ELSE UserTurn(UserMessageText(text))
           message_to_user == IF is_finish THEN FinishMessageToUser ELSE message
           appended == OnSessionUpdated(
                           AppendMessage(sessions[s], s, current_session_id,
                                         message, message_to_user),
                           s, current_session_id)
       IN IF is_finish \/ ~CheckContinuation(appended)
          THEN /\ sessions' = [sessions EXCEPT ![s] = Finalized(appended)]
               /\ active_sessions' = active_sessions \ {s}
               /\ timeout_timers' = [timeout_timers EXCEPT ![s] = "none"]
               /\ UNCHANGED <<workers, worker_agents>>
          ELSE \* _send_to_engine: a new ReactWorkerThread is started
               /\ sessions' = [sessions EXCEPT ![s] = appended]
               /\ workers' = Append(workers, NewWorker(s))
               /\ worker_agents' = Append(worker_agents,
                                          [react_agent |-> SendToEngineAgent,
                                           ran_on |-> NoAgent])
               /\ UNCHANGED <<active_sessions, timeout_timers>>
    /\ UNCHANGED <<gui_queue, current_session_id, max_turns_review>>
    /\ UNCHANGED <<pipeline_react_agent, engine_components, apply_pc>>
    /\ UNCHANGED notSessVars

OnUserInput(s, text) == OnUserInputUpTo(s, text, MaxInputs)

\* ReactWorkerThread.run -> execute_continue: the deepcopy, the assert and the pop;
\* an AssertionError leaves through run()'s except clause as error_occurred
WorkerSnapshot(w) ==
    /\ workers[w].pc = "started"
    /\ LET s == workers[w].session
           msgs == sessions[s].messages
       IN IF msgs[Len(msgs)].role = "user"
          THEN /\ workers' = [workers EXCEPT ![w].pc = "running",
                                             ![w].payload = ContinuePayload(msgs),
                                             ![w].user_query = msgs[Len(msgs)].text]
               /\ UNCHANGED gui_queue
          ELSE /\ workers' = [workers EXCEPT ![w] = DoneWorker(s)]
               /\ gui_queue' = Append(gui_queue,
                                      [session |-> s, signal |-> "error_occurred"])
    /\ UNCHANGED <<sessions, active_sessions, timeout_timers, current_session_id,
                   max_turns_review, user_inputs>>
    /\ worker_agents' = [worker_agents EXCEPT ![w].ran_on = WorkerReactAgent(w)]
    /\ UNCHANGED <<pipeline_react_agent, engine_components, apply_pc>>
    /\ UNCHANGED notSessVars

\* execute_continue reaches finish: session.messages is rewritten from the payload,
\* and run() emits response_ready
WorkerFinish(w) ==
    /\ workers[w].pc = "running"
    /\ LET s == workers[w].session
       IN /\ sessions' = [sessions EXCEPT
                            ![s].messages = ContinueRewrite(workers[w].payload,
                                                            workers[w].user_query)]
          /\ workers' = [workers EXCEPT ![w] = DoneWorker(s)]
          /\ gui_queue' = Append(gui_queue, [session |-> s, signal |-> "response_ready"])
    /\ UNCHANGED <<active_sessions, timeout_timers, current_session_id,
                   max_turns_review, user_inputs>>
    /\ UNCHANGED notSessVars
    /\ UNCHANGED reloadVars

\* execute_continue raises RuntimeError after its last iteration: run() emits
\* error_occurred
WorkerRaise(w) ==
    /\ workers[w].pc = "running"
    /\ LET s == workers[w].session
       IN /\ workers' = [workers EXCEPT ![w] = DoneWorker(s)]
          /\ gui_queue' = Append(gui_queue, [session |-> s, signal |-> "error_occurred"])
    /\ UNCHANGED <<sessions, active_sessions, timeout_timers, current_session_id,
                   max_turns_review, user_inputs>>
    /\ UNCHANGED notSessVars
    /\ UNCHANGED reloadVars

\* Handler._on_react_response, the queued slot of response_ready
OnReactResponse ==
    /\ gui_queue # <<>>
    /\ Head(gui_queue).signal = "response_ready"
    /\ LET s == Head(gui_queue).session
       IN sessions' = IF s \in active_sessions
                      THEN [sessions EXCEPT
                              ![s] = AppendMessage(@, s, current_session_id,
                                                   AssistantTurn("react_final"),
                                                   AssistantTurn("final_answer"))]
                      ELSE sessions
    /\ gui_queue' = Tail(gui_queue)
    /\ UNCHANGED <<active_sessions, timeout_timers, workers, current_session_id,
                   max_turns_review, user_inputs>>
    /\ UNCHANGED notSessVars
    /\ UNCHANGED reloadVars

\* Handler._on_react_error, the queued slot of error_occurred
OnReactError ==
    /\ gui_queue # <<>>
    /\ Head(gui_queue).signal = "error_occurred"
    /\ LET s == Head(gui_queue).session
       IN sessions' = IF s \in active_sessions
                      THEN [sessions EXCEPT
                              ![s] = AppendMessage(@, s, current_session_id,
                                                   AssistantTurn("react_error"),
                                                   AssistantTurn("react_error"))]
                      ELSE sessions
    /\ gui_queue' = Tail(gui_queue)
    /\ UNCHANGED <<active_sessions, timeout_timers, workers, current_session_id,
                   max_turns_review, user_inputs>>
    /\ UNCHANGED notSessVars
    /\ UNCHANGED reloadVars

\* `if session.is_read:` in _try_auto_finalize
ReadGateOpen(sess) == TRUE
ReadGateShut(sess) == FALSE
ReadGate(sess) == sess.is_read

\* the QTimer of _schedule_auto_finalize fires: Handler._try_auto_finalize
TryAutoFinalize(s) ==
    /\ TimerPending(timeout_timers[s])
    /\ IF s \notin active_sessions
       THEN /\ timeout_timers' = [timeout_timers EXCEPT ![s] = "fired"]
            /\ UNCHANGED <<sessions, active_sessions>>
       ELSE IF ReadGate(sessions[s])
       THEN /\ sessions' = [sessions EXCEPT ![s] = Finalized(@)]
            /\ timeout_timers' = [timeout_timers EXCEPT ![s] = "none"]
            /\ active_sessions' = active_sessions \ {s}
       ELSE \* _schedule_auto_finalize replaces the timer
            /\ timeout_timers' = [timeout_timers EXCEPT ![s] = "rescheduled"]
            /\ UNCHANGED <<sessions, active_sessions>>
    /\ UNCHANGED <<workers, gui_queue, current_session_id, max_turns_review, user_inputs>>
    /\ UNCHANGED notSessVars
    /\ UNCHANGED reloadVars

\* handle_error without `del self.timeout_timers[session_id]`
HandleErrorKeepsTimer(s) ==
    /\ s \in active_sessions
    /\ sessions' = [sessions EXCEPT
                      ![s] = UpdateStatus(
                                 AppendMessage(UpdateStatus(@, "error"), s,
                                               current_session_id,
                                               AssistantTurn("handler_error"),
                                               AssistantTurn("handler_error")),
                                 "error")]
    /\ timeout_timers' = timeout_timers
    /\ active_sessions' = active_sessions \ {s}
    /\ UNCHANGED <<workers, gui_queue, current_session_id, max_turns_review, user_inputs>>
    /\ UNCHANGED notSessVars
    /\ UNCHANGED reloadVars

\* Handler.handle_error for an active session, then Inbox._on_session_error
HandleError(s) ==
    /\ s \in active_sessions
    /\ sessions' = [sessions EXCEPT
                      ![s] = UpdateStatus(
                                 AppendMessage(UpdateStatus(@, "error"), s,
                                               current_session_id,
                                               AssistantTurn("handler_error"),
                                               AssistantTurn("handler_error")),
                                 "error")]
    /\ timeout_timers' = [timeout_timers EXCEPT ![s] = "none"]
    /\ active_sessions' = active_sessions \ {s}
    /\ UNCHANGED <<workers, gui_queue, current_session_id, max_turns_review, user_inputs>>
    /\ UNCHANGED notSessVars
    /\ UNCHANGED reloadVars

Next ==
    \/ \E s \in SessionIds, level \in Levels : Build(s, level)
    \/ \E s \in SessionIds : HandleSession(s)
    \/ \E s \in SessionIds : SelectSession(s)
    \/ \E s \in SessionIds, text \in UserTexts : OnUserInput(s, text)
    \/ \E w \in DOMAIN workers : WorkerSnapshot(w)
    \/ \E w \in DOMAIN workers : WorkerFinish(w)
    \/ \E w \in DOMAIN workers : WorkerRaise(w)
    \/ OnReactResponse
    \/ OnReactError
    \/ \E s \in SessionIds : TryAutoFinalize(s)
    \/ \E s \in SessionIds : HandleError(s)

\* Pipeline.reload_engine_config as SettingsDialog._apply_llm_config calls it:
\* Detector, Classifier and ReactAgent are constructed anew; when a constructor
\* raises, the rollback constructs them from the old configuration, or fails
\* too and leaves the ReactAgent that was there
ReloadEngineConfig ==
    /\ apply_pc = "idle"
    /\ pipeline_react_agent < MaxReloads
    /\ \/ /\ pipeline_react_agent' = pipeline_react_agent + 1
          /\ apply_pc' = "reloaded"
       \/ /\ pipeline_react_agent' \in {pipeline_react_agent, pipeline_react_agent + 1}
          /\ apply_pc' = "idle"
    /\ UNCHANGED <<engine_components, worker_agents>>
    /\ UNCHANGED sessVars
    /\ UNCHANGED notSessVars

\* Orchestrator.update_handler_components, called after a successful reload
UpdateHandlerComponents ==
    /\ apply_pc = "reloaded"
    /\ engine_components' = pipeline_react_agent
    /\ apply_pc' = "idle"
    /\ UNCHANGED <<pipeline_react_agent, worker_agents>>
    /\ UNCHANGED sessVars
    /\ UNCHANGED notSessVars

\* one session, with the engine configuration reloaded meanwhile
ReloadSessionIds == {"session-1"}

NextReload ==
    \/ \E s \in ReloadSessionIds, level \in Levels : Build(s, level)
    \/ \E s \in ReloadSessionIds : HandleSession(s)
    \/ \E s \in ReloadSessionIds : SelectSession(s)
    \/ \E s \in ReloadSessionIds, text \in UserTexts : OnUserInput(s, text)
    \/ \E w \in DOMAIN workers : WorkerSnapshot(w)
    \/ \E w \in DOMAIN workers : WorkerFinish(w)
    \/ \E w \in DOMAIN workers : WorkerRaise(w)
    \/ OnReactResponse
    \/ OnReactError
    \/ \E s \in ReloadSessionIds : TryAutoFinalize(s)
    \/ \E s \in ReloadSessionIds : HandleError(s)
    \/ ReloadEngineConfig
    \/ UpdateHandlerComponents

\* one session whose user answers with the buttons of the Inbox
ButtonSessionIds == {"session-1"}

ButtonUserInput(s, text) == OnUserInputUpTo(s, text, MaxInputs)

NextButtons ==
    \/ \E s \in ButtonSessionIds, level \in Levels : Build(s, level)
    \/ \E s \in ButtonSessionIds : HandleSession(s)
    \/ \E s \in ButtonSessionIds : SelectSession(s)
    \/ \E s \in ButtonSessionIds, text \in ButtonTexts \cup {"hello"} :
            ButtonUserInput(s, text)
    \/ \E w \in DOMAIN workers : WorkerSnapshot(w)
    \/ \E w \in DOMAIN workers : WorkerFinish(w)
    \/ \E w \in DOMAIN workers : WorkerRaise(w)
    \/ OnReactResponse
    \/ OnReactError
    \/ \E s \in ButtonSessionIds : TryAutoFinalize(s)
    \/ \E s \in ButtonSessionIds : HandleError(s)

\* one session and its continuation workers
WorkerSessionIds == {"session-1"}

NextWorkers ==
    \/ \E s \in WorkerSessionIds, level \in Levels : Build(s, level)
    \/ \E s \in WorkerSessionIds : HandleSession(s)
    \/ \E s \in WorkerSessionIds : SelectSession(s)
    \/ \E s \in WorkerSessionIds, text \in UserTexts : OnUserInput(s, text)
    \/ \E w \in DOMAIN workers : WorkerSnapshot(w)
    \/ \E w \in DOMAIN workers : WorkerFinish(w)
    \/ \E w \in DOMAIN workers : WorkerRaise(w)
    \/ OnReactResponse
    \/ OnReactError
    \/ \E s \in WorkerSessionIds : TryAutoFinalize(s)
    \/ \E s \in WorkerSessionIds : HandleError(s)

\* one session with a positive turn budget and more user turns
BudgetSessionIds == {"session-1"}

BudgetUserInput(s, text) == OnUserInputUpTo(s, text, MaxBudgetInputs)

NextBudget ==
    \/ \E s \in BudgetSessionIds, level \in Levels : Build(s, level)
    \/ \E s \in BudgetSessionIds : HandleSession(s)
    \/ \E s \in BudgetSessionIds : SelectSession(s)
    \/ \E s \in BudgetSessionIds, text \in UserTexts : BudgetUserInput(s, text)
    \/ \E w \in DOMAIN workers : WorkerSnapshot(w)
    \/ \E w \in DOMAIN workers : WorkerFinish(w)
    \/ \E w \in DOMAIN workers : WorkerRaise(w)
    \/ OnReactResponse
    \/ OnReactError
    \/ \E s \in BudgetSessionIds : TryAutoFinalize(s)
    \/ \E s \in BudgetSessionIds : HandleError(s)

\* the parts of the state a specification leaves alone
IdleReact ==
    /\ mode = "execute"
    /\ max_iterations = 0
    /\ iteration = 0
    /\ context = <<>>
    /\ r_pc = "idle"
    /\ prompt = NoPrompt
    /\ prompts = <<>>
    /\ llm_response = NoResponse
    /\ exc = ""
    /\ tool_calls = 0
    /\ result = NoResult
    /\ messages = <<>>
    /\ payload = <<>>

IdlePipeline ==
    /\ queue_size = 1
    /\ signal_queue = <<>>
    /\ is_running = FALSE
    /\ processing_thread = NoThreadId
    /\ threads = [t \in ThreadIds |-> NoThread]
    /\ ctl = "off"
    /\ producers = [p \in Producers |-> [pc |-> "off", signal |-> 0]]
    /\ next_signal = 1
    /\ engine_ready = FALSE
    /\ enqueued = <<>>
    /\ dropped = {}
    /\ route_raised = {}
    /\ handled = <<>>
    /\ no_intent = {}
    /\ classify_calls = {}
    /\ react_calls = {}
    /\ session = NoSession
    /\ inbox = {}

IdleSession ==
    /\ sessions = [s \in SessionIds |-> Unbuilt]
    /\ active_sessions = {}
    /\ timeout_timers = [s \in SessionIds |-> "none"]
    /\ workers = <<>>
    /\ gui_queue = <<>>
    /\ current_session_id = NoCurrentSession
    /\ max_turns_review = DefaultReviewTurns
    /\ user_inputs = 0

IdleClassifier ==
    /\ c_pc = "off"
    /\ c_llm = NoLLMOutcome
    /\ c_local = ""
    /\ c_level = ""
    /\ c_returned = <<>>

IdleLLM ==
    /\ l_pc = "off"
    /\ l_config = 0
    /\ l_arg = NoArg
    /\ l_max_retries = 0
    /\ l_attempt = 0
    /\ l_log = <<>>

\* Orchestrator hands Pipeline's components to the Handler it constructs
InitComponents ==
    /\ pipeline_react_agent = 0
    /\ engine_components = 0
    /\ apply_pc = "idle"
    /\ worker_agents = <<>>

IdleDetector ==
    /\ d_pc = "off"
    /\ d_content = ""
    /\ d_llm = NoDetectOutcome
    /\ d_intent = NoIntent
    /\ d_returned = <<>>

IdleTool ==
    /\ t_pc = "idle"
    /\ t_enabled = {}
    /\ t_name = ""
    /\ t_params = NotADict
    /\ t_result = NoToolResult
    /\ t_exc = ""
    /\ t_invoked = FALSE
    /\ t_observation = NoObservation

InitPipelineOnly ==
    InitPipeline /\ IdleReact /\ IdleSession /\ IdleClassifier /\ IdleTool /\ IdleDetector
    /\ InitComponents /\ InitManager /\ IdleLLM

SpecPipeline == InitPipelineOnly /\ [][NextPipeline]_vars

\* every consumer thread keeps running and every processing stage returns
SpecPipelineFair ==
    /\ SpecPipeline
    /\ \A t \in ThreadIds :
          /\ WF_vars(LoopCheck(t))
          /\ WF_vars(Get(t))
          /\ WF_vars(GetEmpty(t))
          /\ WF_vars(HandleSignal(t))
          /\ WF_vars(Detect(t))
          /\ WF_vars(ClassifyReturns(t))
          /\ WF_vars(ReactReturns(t))
          /\ WF_vars(JoinAndDeliver(t))

InitReactOnly ==
    InitReact /\ IdlePipeline /\ IdleSession /\ IdleClassifier /\ IdleTool /\ IdleDetector
    /\ InitComponents /\ InitManager /\ IdleLLM

Init ==
    InitSession /\ IdleReact /\ IdlePipeline /\ IdleClassifier /\ IdleTool /\ IdleDetector
    /\ InitComponents /\ InitManager /\ IdleLLM

InitBudget ==
    /\ sessions = [s \in SessionIds |-> Unbuilt]
    /\ active_sessions = {}
    /\ timeout_timers = [s \in SessionIds |-> "none"]
    /\ workers = <<>>
    /\ gui_queue = <<>>
    /\ current_session_id = NoCurrentSession
    /\ max_turns_review = BudgetTurns
    /\ user_inputs = 0
    /\ IdleReact /\ IdlePipeline /\ IdleClassifier /\ IdleTool /\ IdleDetector
    /\ InitComponents /\ InitManager /\ IdleLLM

SpecBudget == InitBudget /\ [][NextBudget]_vars

InitClassifierOnly ==
    InitClassifier /\ IdleReact /\ IdlePipeline /\ IdleSession /\ IdleTool /\ IdleDetector
    /\ InitComponents /\ InitManager /\ IdleLLM

SpecClassifier == InitClassifierOnly /\ [][NextClassifier]_vars

InitToolOnly ==
    InitTool /\ IdleReact /\ IdlePipeline /\ IdleSession /\ IdleClassifier /\ IdleDetector
    /\ InitComponents /\ InitManager /\ IdleLLM

SpecTool == InitToolOnly /\ [][NextTool]_vars

InitDetectorOnly ==
    InitDetector /\ IdleReact /\ IdlePipeline /\ IdleSession /\ IdleClassifier /\ IdleTool
    /\ InitComponents /\ InitManager /\ IdleLLM

InitReload ==
    /\ sessions = [s \in SessionIds |-> Unbuilt]
    /\ active_sessions = {}
    /\ timeout_timers = [s \in SessionIds |-> "none"]
    /\ workers = <<>>
    /\ gui_queue = <<>>
    /\ current_session_id = NoCurrentSession
    /\ max_turns_review = DefaultReviewTurns
    /\ user_inputs = 0
    /\ IdleReact /\ IdlePipeline /\ IdleClassifier /\ IdleTool /\ IdleDetector
    /\ InitComponents /\ InitManager /\ IdleLLM

SpecReload == InitReload /\ [][NextReload]_vars

SpecButtons == InitReload /\ [][NextButtons]_vars

InitLLMOnly ==
    /\ InitLLM
    /\ IdleReact /\ IdlePipeline /\ IdleSession /\ IdleClassifier /\ IdleTool
    /\ IdleDetector /\ InitComponents /\ InitManager

SpecLLM == InitLLMOnly /\ [][NextLLM]_vars

InitManagerOnly ==
    /\ InitManager
    /\ IdleReact /\ IdlePipeline /\ IdleSession /\ IdleClassifier /\ IdleTool
    /\ IdleDetector /\ IdleLLM /\ InitComponents

SpecManager == InitManagerOnly /\ [][NextManager]_vars

SpecDetector == InitDetectorOnly /\ [][NextDetector]_vars

Spec == Init /\ [][Next]_vars

\* a started single-shot QTimer fires once the GUI event loop runs
SpecFair == Spec /\ \A s \in SessionIds : WF_vars(TryAutoFinalize(s))

\* a started ReactWorkerThread runs to the end of run() (LLM and tool calls
\* return), and the GUI event loop delivers every queued signal to its slot
SpecWorkers ==
    /\ InitReload /\ [][NextWorkers]_vars
    /\ WF_vars(\E w \in DOMAIN workers : WorkerSnapshot(w))
    /\ WF_vars(\E w \in DOMAIN workers : WorkerFinish(w) \/ WorkerRaise(w))
    /\ WF_vars(OnReactResponse)
    /\ WF_vars(OnReactError)

SpecReact == InitReactOnly /\ [][NextReact]_vars

\* -------------------------------------------------- Pipeline: properties

TypePipeline ==
    /\ \A t \in ThreadIds :
          threads[t].pc \in {"unborn", "loop", "get", "got", "detect", "pool", "exited"}
    /\ \A p \in Producers : producers[p].pc \in {"idle", "waiting", "off"}
    /\ ctl \in {"idle", "joining", "off"}
    /\ processing_thread \in ThreadIds \cup {NoThreadId}
    /\ classify_calls = react_calls

\* C2: when Detector.detect returns None for a signal, _handle_signal stops for
\* it: its intent is never submitted to Classifier.classify or
\* ReactAgent.execute, and no Session is built for it or handed to the inbox.
C2_NoIntentStops ==
    \A s \in no_intent :
        /\ s \notin classify_calls
        /\ s \notin react_calls
        /\ s \notin inbox
        /\ session.signal # s
        /\ \A t \in ThreadIds : threads[t].signal = s => threads[t].pc # "pool"

\* the first signal handled had no intent, and a later one became a Session
C2_Witness ==
    /\ Len(handled) >= 2
    /\ handled[1] \in no_intent
    /\ inbox # {}

\* C8: the queue never holds more than queue_size signals and route_signal never
\* raises to the adapter; a put() that gives up on a queue still at capacity
\* drops its signal and leaves the queued signals and their order as they were.
C8_FullQueueDropsNewSignal ==
    /\ [](Len(signal_queue) <= queue_size /\ route_raised = {})
    /\ [][ \A p \in Producers :
             (/\ producers[p].pc = "waiting"
              /\ Len(signal_queue) >= queue_size
              /\ producers'[p].pc = "idle")
             => /\ signal_queue' = signal_queue
                /\ enqueued' = enqueued
                /\ dropped' = dropped \cup {producers[p].signal} ]_vars

\* capacity 1, no consumer started, two signals routed: the second is dropped
\* and the first is the next one to be dequeued
C8_Witness ==
    /\ queue_size = 1
    /\ \A t \in ThreadIds : threads[t].pc = "unborn"
    /\ enqueued = <<1>>
    /\ dropped = {2}
    /\ signal_queue = <<1>>
    /\ \A p \in Producers : producers[p].pc = "idle"

\* C9 (as claimed): signals enter _handle_signal in exactly the order in which
\* they were enqueued; a dropped signal is never handled and none is handled
\* twice.
C9_HandledInEnqueueOrder ==
    /\ Len(handled) <= Len(enqueued)
    /\ \A i \in 1..Len(handled) : handled[i] = enqueued[i]
    /\ \A i \in 1..Len(handled) : handled[i] \notin dropped

\* C10 (as claimed): at most one signal is inside _handle_signal at any moment.
C10_OneSignalAtATime == Cardinality(InHandleSignal) <= 1

\* C11: classify and execute run side by side, and a Session is built only by a
\* consumer whose two futures are both done, with the level classify assigned
\* to the intent; while either future runs, no Session of that signal exists
C11_BuildAfterBothWithClassifiedLevel ==
    /\ [](\A t \in ThreadIds :
            (threads[t].pc = "pool" /\ ~BothDone(threads[t]))
                => (threads[t].signal \notin inbox /\ session.signal # threads[t].signal))
    /\ [][session' # session =>
            \E t \in ThreadIds :
                /\ threads[t].pc = "pool"
                /\ threads[t].classify = "done"
                /\ threads[t].react = "returned"
                /\ session'.signal = threads[t].signal
                /\ session'.built.level = threads[t].level]_vars

\* a Session was built with the classified level Review (the Detector's
\* placeholder is Notify) while another consumer has execute done and classify
\* still running
C11_Witness ==
    /\ session.built.level = "Review"
    /\ session.signal \in inbox
    /\ \E t \in ThreadIds :
          /\ threads[t].pc = "pool"
          /\ threads[t].react = "returned"
          /\ threads[t].classify = "running"

\* the LLM outcomes the claim calls failures
ClassifyFailure(llm) ==
    \/ llm.raised
    \/ llm.json # "object"
    \/ llm.level \in {"missing", "null"}
    \/ StripLevel(llm.level) \notin {"Notify", "Review"}

\* C12: whatever the LLM call gives, classify returns (never raises) and the
\* level it returns and assigns to intent.level is Notify or Review, Notify on
\* every failure
C12_ClassifyTotalNotifyOnFailure ==
    /\ c_pc \in {"idle", "llm", "parse", "except", "assign"}
    /\ \A k \in DOMAIN c_returned :
          /\ c_returned[k].level \in {"Notify", "Review"}
          /\ ClassifyFailure(c_returned[k].llm) => c_returned[k].level = "Notify"
          /\ c_returned[k].level = Classify(c_returned[k].llm)
    /\ (c_pc = "idle" /\ c_returned # <<>>) =>
          c_level = c_returned[Len(c_returned)].level

\* classify has returned Notify for a JSON object whose level is invalid, after
\* a call that returned Review
C12_Witness ==
    /\ Len(c_returned) = 2
    /\ c_returned[1].level = "Review"
    /\ c_returned[2].llm.json = "object"
    /\ c_returned[2].llm.level = "review"
    /\ c_returned[2].level = "Notify"
    /\ c_level = "Notify"

\* ------------------------------------------------ ReactAgent: properties

TypeReact ==
    /\ r_pc \in {"idle", "entry", "build", "call", "parse", "except", "returned",
                 "raised_fatal", "raised_assert"}
    /\ iteration \in 0..(max_iterations + 1)
    /\ Len(context) <= iteration

\* C3: one call of execute / execute_continue issues at most max_iterations LLM
\* requests and at most max_iterations tool executions, and the loop variable
\* never passes max_iterations, whatever mix of successful steps, failed steps
\* and finish actions occurs.
C3_IterationBudget ==
    /\ Len(prompts) <= max_iterations
    /\ tool_calls <= max_iterations
    /\ iteration <= max_iterations

\* the whole budget spent on tool steps
C3_Witness ==
    /\ max_iterations >= 2
    /\ Len(prompts) = max_iterations
    /\ tool_calls = max_iterations

\* C4: the prompt sent to the LLM in iteration i carries the forced-finish
\* instruction if and only if i = max_iterations.
C4_ForcedFinishOnlyLast ==
    \A k \in 1..Len(prompts) :
        prompts[k].prompt.forced_finish <=> (prompts[k].iteration = max_iterations)

\* a run of several iterations: the first prompt without, the last one with
C4_Witness ==
    /\ max_iterations >= 2
    /\ Len(prompts) = max_iterations
    /\ ~prompts[1].prompt.forced_finish
    /\ prompts[Len(prompts)].prompt.forced_finish

\* C5: the fatal 'ReAct loop completed without finish action' error is raised
\* only after all max_iterations iterations have run, each having left one
\* non-finish entry in the history; no result is returned in that case, and a
\* result is returned only from an iteration whose action is finish.
C5_FatalOnlyAfterAllIterations ==
    /\ r_pc = "raised_fatal" =>
          /\ iteration = max_iterations
          /\ Len(context) = max_iterations
          /\ result = NoResult
          /\ \A i \in 1..Len(context) : Lower(context[i].action_name) # "finish"
    /\ r_pc = "returned" =>
          /\ llm_response.tag = "call"
          /\ Lower(llm_response.name) = "finish"
          /\ result # NoResult

\* exhausted after a mix of tool steps and failed iterations
C5_Witness ==
    /\ r_pc = "raised_fatal"
    /\ max_iterations >= 2
    /\ \E i, j \in 1..Len(context) :
          /\ context[i].action_name = "error"
          /\ context[j].action_name = "calculator"

\* C6: an exception caught in iteration N < max_iterations does not leave the
\* call: exactly one entry (previous thought or "", "error", {}, "Error: <msg>")
\* is appended to the history and iteration N+1 starts.
C6_ExceptionRecorded ==
    [][ (r_pc = "except" /\ iteration < max_iterations) =>
          /\ context' = Append(context,
                [thought |-> IF Len(context) > 0 THEN context[Len(context)].thought
                                                 ELSE "",
                 action_name |-> "error", action_params |-> {},
                 observation |-> <<"Error: ", exc>>])
          /\ iteration' = iteration + 1
          /\ r_pc' = "build"
          /\ result' = NoResult ]_vars

\* a failed iteration after a step that had a thought, and the next one running
C6_Witness ==
    /\ r_pc = "build"
    /\ \E i \in 2..Len(context) :
          /\ iteration = i + 1
          /\ context[i].action_name = "error"
          /\ context[i].thought # ""
          /\ context[i].thought = context[i - 1].thought

\* the entry iteration j left in the history records a failure
IterationFailed(entry) ==
    entry.action_name = "error" \/ IsToolErrorText(entry.observation)

RenderedInPrompt(p, j) ==
    \E n \in 1..Len(p.history.steps) :
        /\ p.history.steps[n].step = j
        /\ p.history.steps[n].observation = context[j].observation

TypeSession ==
    /\ \A s \in SessionIds :
          /\ sessions[s].status \in {"none", "pending", "active", "completed", "error"}
          /\ timeout_timers[s] \in TimerStates
    /\ active_sessions \subseteq SessionIds
    /\ current_session_id \in SessionIds \cup {NoCurrentSession}
    /\ user_inputs \in 0..MaxInputs
    /\ \A w \in DOMAIN workers : workers[w].pc \in {"started", "running", "done"}

\* len(messages) - len(messages_to_user) of a Session
Offset(sess) == Len(sess.messages) - Len(sess.messages_to_user)

\* a worker of session s finishes in this step and rewrites a transcript that is
\* no longer the one it copied
StaleRewrite(s) ==
    \E w \in DOMAIN workers :
        /\ workers[w].session = s
        /\ workers[w].pc = "running"
        /\ workers'[w].pc = "done"
        /\ Len(workers[w].payload) + 1 # Len(sessions[s].messages)
        /\ sessions'[s].messages_to_user = sessions[s].messages_to_user

StatusStep(a, b) ==
    \/ a = b
    \/ <<a, b>> \in {<<"none", "pending">>, <<"pending", "active">>,
                     <<"active", "completed">>, <<"active", "error">>}

\* C13: a Session's status only moves pending -> active -> completed or error;
\* completed and error are final
C13_StatusMovesForward ==
    [][\A s \in SessionIds : StatusStep(sessions[s].status, sessions'[s].status)]_vars

\* one session completed after a continuation was delivered, the other ended in
\* error, and a worker signal for a finished session is still queued
C13_Witness ==
    /\ \E s \in SessionIds :
          /\ sessions[s].status = "completed"
          /\ Len(sessions[s].messages_to_user) >= 3
    /\ \E s \in SessionIds : sessions[s].status = "error"
    /\ gui_queue # <<>>

\* the ReactWorkerThreads of a session that have not emitted their signal yet
Outstanding(s) ==
    {w \in DOMAIN workers : workers[w].session = s /\ workers[w].pc \in {"started", "running"}}

\* C14: a session never has two continuation calls outstanding
C14_OneOutstandingContinuation ==
    \A s \in SessionIds : Cardinality(Outstanding(s)) <= 1

\* the roles of a transcript, oldest first
Roles(msgs) == [i \in DOMAIN msgs |-> msgs[i].role]
IsPrefix(a, b) == Len(a) <= Len(b) /\ SubSeq(b, 1, Len(a)) = a

\* C15: both transcripts only grow, and the roles they had stay a prefix of the
\* roles they have later
C15_TranscriptsAppendOnly ==
    [][\A s \in SessionIds :
          /\ IsPrefix(Roles(sessions[s].messages), Roles(sessions'[s].messages))
          /\ IsPrefix(Roles(sessions[s].messages_to_user),
                      Roles(sessions'[s].messages_to_user))]_vars

\* C16: a session that got the error message of a failed continuation is in
\* status error
C16_FailedContinuationSetsError ==
    \A s \in SessionIds :
        \A i \in DOMAIN sessions[s].messages_to_user :
            sessions[s].messages_to_user[i].kind = "react_error"
                => sessions[s].status = "error"

\* a text that equals '/finish' after trimming and lower-casing
IsFinishCommand(text) == text \in {"/finish", " /Finish ", "/FINISH"}

\* this step is on_user_input appending one user turn to session s
UserTurnAppended(s) ==
    /\ user_inputs' = user_inputs + 1
    /\ Len(sessions'[s].messages) = Len(sessions[s].messages) + 1
    /\ sessions'[s].messages[Len(sessions'[s].messages)].role = "user"

\* this step is on_user_input handling a /finish command for session s
FinishStep(s) ==
    /\ UserTurnAppended(s)
    /\ IsFinishCommand(sessions'[s].messages[Len(sessions'[s].messages)].text)

\* C17: a /finish command takes an active session straight to completed and
\* out of active_sessions, starting no worker, whatever else is going on
C17_FinishShortCircuits ==
    [][\A s \in SessionIds :
          FinishStep(s) =>
              /\ s \in active_sessions
              /\ sessions'[s].status = "completed"
              /\ s \notin active_sessions'
              /\ workers' = workers
              /\ gui_queue' = gui_queue]_vars

\* a Review session was completed by /finish while its continuation worker
\* is still running
C17_Witness ==
    \E s \in SessionIds :
        /\ sessions[s].status = "completed"
        /\ sessions[s].level = "Review"
        /\ sessions[s].messages[Len(sessions[s].messages)] = FinishMessage
        /\ \E w \in DOMAIN workers :
              workers[w].session = s /\ workers[w].pc = "running"

\* C18 as stated: handling /finish appends the user message and a synthetic
\* assistant message
C18_FinishAppendsAssistant ==
    [][\A s \in SessionIds :
          FinishStep(s) =>
              \/ sessions'[s].messages_to_user[Len(sessions'[s].messages_to_user)].role
                     = "assistant"
              \/ sessions'[s].messages[Len(sessions'[s].messages)].role = "assistant"]_vars

\* C18: handling /finish appends the user message "/finish" to messages and
\* the user-role text "You have finished this conversation." to
\* messages_to_user, no assistant message, and the session is completed
C18_FinishAppendsUserNotice ==
    [][\A s \in SessionIds :
          FinishStep(s) =>
              /\ sessions'[s].messages = Append(sessions[s].messages, FinishMessage)
              /\ sessions'[s].messages_to_user =
                     Append(sessions[s].messages_to_user, UserTurn(FinishedText))
              /\ sessions'[s].status = "completed"]_vars

\* a Review session completed by /finish: the last entries of the two
\* transcripts are the command and the notice
C18_Witness ==
    \E s \in SessionIds :
        /\ sessions[s].level = "Review"
        /\ sessions[s].status = "completed"
        /\ sessions[s].messages[Len(sessions[s].messages)].text = "/finish"
        /\ sessions[s].messages_to_user[Len(sessions[s].messages_to_user)].text
              = FinishedText

\* this step completes session s without a user turn: the auto-finalize timer
CompletedByTimer(s) ==
    /\ sessions[s].status = "active"
    /\ sessions'[s].status = "completed"
    /\ user_inputs' = user_inputs

\* C19: the auto-finalize check completes a session only if it was read; an
\* unread session stays active, in active_sessions, with one pending timer
C19_TimerIsReadGated ==
    /\ [][\A s \in SessionIds :
            /\ CompletedByTimer(s) => sessions[s].is_read
            /\ (TimerPending(timeout_timers[s]) /\ s \in active_sessions
                   /\ ~sessions[s].is_read /\ user_inputs' = user_inputs
                   /\ sessions'[s].status # "error")
                  => /\ sessions'[s].status = "active"
                     /\ s \in active_sessions'
                     /\ TimerPending(timeout_timers'[s])]_vars
    /\ [](\A s \in SessionIds :
            (s \in active_sessions /\ sessions[s].level = "Notify")
                => TimerPending(timeout_timers[s]))

\* a check found the session unread and scheduled the next one
C19_Witness ==
    \E s \in SessionIds :
        /\ timeout_timers[s] = "rescheduled"
        /\ ~sessions[s].is_read
        /\ sessions[s].status = "active"
        /\ s \in active_sessions

\* C20: an active Notify session leaves active only after it was read or by a
\* user turn; once read it is eventually completed and out of active_sessions
\* (in behaviours where handle_error is not called on it), so a session never
\* read and given no input stays active
C20_ReadNotifyEventuallyCompleted ==
    /\ [][\A s \in SessionIds :
            (sessions[s].level = "Notify" /\ sessions[s].status = "active"
               /\ sessions'[s].status \notin {"active", "error"})
              => (sessions[s].is_read \/ user_inputs' # user_inputs)]_vars
    /\ \A s \in SessionIds :
          [](sessions[s].status # "error") =>
              ((sessions[s].level = "Notify" /\ s \in active_sessions
                  /\ sessions[s].is_read)
                 ~> (sessions[s].status = "completed" /\ s \notin active_sessions))

\* a Notify session that was read and then completed by the timer alone
C20_Witness ==
    \E s \in SessionIds :
        /\ sessions[s].level = "Notify"
        /\ sessions[s].status = "completed"
        /\ sessions[s].is_read
        /\ Len(sessions[s].messages) = 3
        /\ timeout_timers[s] = "none"
        /\ user_inputs = 0

\* C21: a Notify session has max_turns 0 and never gets a continuation worker:
\* a user turn on it is appended and the session is finalized
C21_NotifyIsZeroTurn ==
    /\ [](\A s \in SessionIds :
            sessions[s].level = "Notify" =>
                /\ sessions[s].max_turns = 0
                /\ \A w \in DOMAIN workers : workers[w].session # s)
    /\ [][\A s \in SessionIds :
            (sessions[s].level = "Notify" /\ UserTurnAppended(s)) =>
                /\ sessions'[s].status = "completed"
                /\ s \notin active_sessions'
                /\ workers' = workers]_vars

\* a Notify session got the user turn "hello" and was finalized
C21_Witness ==
    \E s \in SessionIds :
        /\ sessions[s].level = "Notify"
        /\ sessions[s].status = "completed"
        /\ Len(sessions[s].messages) = 4
        /\ sessions[s].messages[4] = UserTurn("hello")

\* the user-role entries of a transcript
UserCount(msgs) == Cardinality({i \in DOMAIN msgs : msgs[i].role = "user"})

\* C22: an active Review session has no auto-finalize timer and leaves active
\* only by /finish, by a user turn that uses up a positive budget, or by an
\* error; with max_turns -1 every other user turn appends one entry and starts
\* one worker
C22_ReviewEndsOnlyByUserOrError ==
    /\ [](\A s \in SessionIds :
            sessions[s].level = "Review" => timeout_timers[s] = "none")
    /\ [][\A s \in SessionIds :
            sessions[s].level = "Review" =>
              /\ (sessions[s].status = "active" /\ sessions'[s].status # "active") =>
                    \/ sessions'[s].status = "error"
                    \/ FinishStep(s)
                    \/ /\ UserTurnAppended(s)
                       /\ sessions[s].max_turns > 0
                       /\ UserCount(sessions'[s].messages) >= sessions[s].max_turns
              /\ (sessions[s].max_turns = -1 /\ UserTurnAppended(s) /\ ~FinishStep(s)) =>
                    /\ sessions'[s].status = "active"
                    /\ s \in active_sessions'
                    /\ Len(sessions'[s].messages_to_user)
                          = Len(sessions[s].messages_to_user) + 1
                    /\ workers' = Append(workers, NewWorker(s))]_vars

\* an unbounded Review session, read by the user, still active after two user
\* turns that each started a worker
C22_Witness ==
    \E s \in SessionIds :
        /\ sessions[s].level = "Review"
        /\ sessions[s].max_turns = -1
        /\ sessions[s].status = "active"
        /\ sessions[s].is_read
        /\ Cardinality({w \in DOMAIN workers : workers[w].session = s}) = 2

\* the continuation workers ever started for a session
Started(s) == {w \in DOMAIN workers : workers[w].session = s}

\* C23: with max_turns N > 0 a user turn starts a continuation exactly when
\* the user-role entries after appending it are fewer than N, otherwise it
\* finalizes; so at most N continuations are ever started for the session
C23_BudgetBoundsContinuations ==
    /\ [][\A s \in SessionIds :
            (sessions[s].max_turns > 0 /\ UserTurnAppended(s) /\ ~FinishStep(s)) =>
                IF UserCount(sessions'[s].messages) < sessions[s].max_turns
                THEN workers' = Append(workers, NewWorker(s))
                ELSE workers' = workers /\ sessions'[s].status = "completed"]_vars
    /\ [](\A s \in SessionIds :
            sessions[s].max_turns > 0 =>
                Cardinality(Started(s)) <= sessions[s].max_turns)

\* a step of a ReactWorkerThread (run -> execute_continue), not of the Handler
WorkerStep == \E w \in DOMAIN workers : workers'[w] # workers[w]

\* a step of the Inbox alone: the selection changes
InboxStep == current_session_id' # current_session_id

\* C24: while a session is active, its messages, messages_to_user and status
\* are changed only by Handler methods, never by a step of the continuation
\* worker thread or of the Inbox
C24_OnlyHandlerWritesActiveSession ==
    [][\A s \in SessionIds :
        (/\ sessions[s].status = "active"
         /\ \/ sessions'[s].messages # sessions[s].messages
            \/ sessions'[s].messages_to_user # sessions[s].messages_to_user
            \/ sessions'[s].status # sessions[s].status)
        => (~WorkerStep /\ ~InboxStep)]_vars

\* ------------------------------------------------ ToolExecutor: properties

TypeTool ==
    /\ t_pc \in {"idle", "enabled?", "validate", "manager", "invoke", "extract",
                 "except", "returned"}
    /\ t_invoked \in BOOLEAN
    /\ t_pc = "returned" <=> t_observation # NoObservation

IsErrorObservation(observation) ==
    observation.form \in {"Error: ", "Error executing tool", "execution timed out"}

\* C25: ToolExecutor.execute never raises and always comes back with an
\* observation: every position of the call but the return has a next step and
\* no exception is left travelling at the return; an unknown tool, a disabled
\* tool, a missing required parameter, an exception of the tool and a tool
\* TimeoutError each give an error text, the first three without the tool's
\* own execute having been entered
C25_ExecuteAlwaysReturnsObservation ==
    /\ t_pc \notin {"idle", "returned"} => ENABLED NextTool
    /\ t_pc = "returned" =>
          /\ t_observation # NoObservation
          /\ t_name \notin RegisteredTools =>
                t_observation = ToolNotFound(t_name) /\ ~t_invoked
          /\ (t_name \in RegisteredTools /\ t_name \notin t_enabled) =>
                t_observation = ToolDisabled(t_name) /\ ~t_invoked
          /\ (t_name \in t_enabled /\ ~(RequiredParams(t_name) \subseteq t_params.keys)) =>
                IsErrorObservation(t_observation) /\ ~t_invoked
          /\ t_exc # "" => IsErrorObservation(t_observation)
          /\ t_exc = "TimeoutError" => t_observation = ToolHandleTimeout(t_name)

\* an enabled tool called without its required parameter, back with an error
C25_Witness ==
    /\ t_pc = "returned"
    /\ t_name = "calculator" /\ t_name \in t_enabled
    /\ t_params = [is_dict |-> TRUE, keys |-> {"mode"}]
    /\ t_exc = "ValueError"
    /\ t_observation = ToolHandleError("ValueError", "calculator")

\* the order of the keys as claimed, and the first of them the mapping holds
ClaimedOrder ==
    <<"translated_text", "text", "message", "answer", "result", "value", "content">>
FirstPresent(r) ==
    IF \E i \in DOMAIN ClaimedOrder : ClaimedOrder[i] \in r.keys
    THEN ClaimedOrder[CHOOSE i \in DOMAIN ClaimedOrder :
                        /\ ClaimedOrder[i] \in r.keys
                        /\ \A j \in 1..(i - 1) : ClaimedOrder[j] \notin r.keys]
    ELSE NoKey

\* C26: for a mapping the observation is the string of the value of the first
\* key present among translated_text, text, message, answer, result, value,
\* content, None and an 'error' key notwithstanding; else 'Error: <error>';
\* else the 'key: value' lines of the keys not starting with '_' and not
\* 'success', or str(result) when there are none; a non-mapping is
\* stringified and None becomes 'No result'
C26_ExtractTextPriority ==
    (t_pc = "returned" /\ t_result # NoToolResult) =>
        LET r == t_result
            o == t_observation
        IN CASE r.kind = "None" -> o.form = "value" /\ o.text = "No result"
             [] r.kind = "str"  -> o.form = "str(result)"
             [] OTHER ->
                IF FirstPresent(r) # NoKey
                THEN /\ o.form = "value"
                     /\ o.text = (IF r.none = FirstPresent(r) THEN "None" ELSE FirstPresent(r))
                ELSE IF "error" \in r.keys
                THEN o.form = "Error: " /\ o.text = StrValue(r, "error")
                ELSE LET shown == {k \in r.keys : k \notin {"_meta", "success"}} IN
                     IF shown # {}
                     THEN /\ o.form = "key: value lines"
                          /\ {o.pairs[i].key : i \in DOMAIN o.pairs} = shown
                          /\ Len(o.pairs) = Cardinality(shown)
                          /\ \A i \in DOMAIN o.pairs :
                                o.pairs[i].value = StrValue(r, o.pairs[i].key)
                     ELSE o.form = "str(result)"

\* the calculator's failure mapping: result None beside an error gives "None"
C26_Witness ==
    /\ t_pc = "returned"
    /\ t_result = [kind |-> "dict", keys |-> {"expression", "result", "error", "success"},
                   none |-> "result"]
    /\ t_observation = [form |-> "value", text |-> "None", pairs |-> <<>>]

\* ------------------------------------------------ ReactAgent: the finish action

\* the answer a finish action with these parameters is claimed to give
ClaimedAnswer(params) ==
    IF \E kv \in params : kv[1] = "result" /\ kv[2] # ""
    THEN (CHOOSE kv \in params : kv[1] = "result")[2]
    ELSE "Task completed (no result provided)"

\* the response under parse is a well-formed call of finish, in any case
ParsedFinish ==
    /\ r_pc = "parse"
    /\ llm_response.tag = "call"
    /\ llm_response.name \in {"finish", "Finish"}

\* C27: a parsed action named finish, ignoring case, ends the loop in the same
\* iteration without a ToolExecutor call, and the answer is its result
\* parameter, or the placeholder when result is missing or empty; with
\* max_iterations = 1, finish(result="X") gives "X"
C27_FinishEndsLoopWithResult ==
    /\ [][ParsedFinish =>
            /\ r_pc' = "returned"
            /\ iteration' = iteration
            /\ tool_calls' = tool_calls
            /\ context' = context
            /\ prompts' = prompts
            /\ result'.raw_assistant = ClaimedAnswer(llm_response.params)]_vars
    /\ []((/\ r_pc = "returned"
           /\ max_iterations = 1
           /\ llm_response.params = {<<"result", "X">>})
          => result.raw_assistant = "X")

\* Finish(result="") at the only iteration, answered by the placeholder
C27_Witness ==
    /\ r_pc = "returned"
    /\ max_iterations = 1
    /\ iteration = 1
    /\ llm_response.name = "Finish"
    /\ llm_response.params = {<<"result", "">>}
    /\ tool_calls = 0
    /\ result.raw_assistant = "Task completed (no result provided)"

\* ------------------------------------------------ Detector: properties

\* the call got a text from the LLM
GotText(call) == call.content # "multimodal_bad" /\ ~call.llm.raised

\* C28: detect never raises. It returns None exactly when the LLM gave a JSON
\* object whose target is null, "null" or "None"; a text that is not JSON gives
\* an Intent with target 'process text'; any other exception gives the error
\* Intent with level Notify; every other response gives an Intent with the
\* object's target ('unknown' when the object has none)
C28_DetectTotal ==
    /\ d_pc \in {"off", "idle", "llm", "parse", "except", "return"}
    /\ d_pc \notin {"off", "idle"} => ENABLED NextDetector
    /\ \A k \in DOMAIN d_returned :
          LET call == d_returned[k]
              llm == call.llm
              intent == call.intent
          IN /\ intent.is_none <=>
                   (/\ GotText(call) /\ llm.json = "object"
                    /\ llm.target \in {"null", "'null'", "'None'"})
             /\ (GotText(call) /\ llm.json = "invalid") =>
                   (~intent.is_none /\ intent.target = "'process text'")
             /\ (~GotText(call) \/ llm.json \in {"array", "null", "string"}) =>
                   (/\ ~intent.is_none /\ intent.target = "[ERROR]"
                    /\ intent.level = "Notify" /\ intent.context = "str(e)")
             /\ (/\ GotText(call) /\ llm.json = "object"
                 /\ llm.target \notin {"null", "'null'", "'None'"}) =>
                   (/\ ~intent.is_none
                    /\ intent.target = (IF llm.target = "missing" THEN "'unknown'"
                                        ELSE llm.target)
                    /\ intent.level = "Notify"
                    /\ intent.context = call.content)

\* None for a target "None", then the error Intent for a JSON array
C28_Witness ==
    /\ Len(d_returned) = 2
    /\ d_returned[1].llm.target = "'None'"
    /\ d_returned[1].intent.is_none
    /\ d_returned[2].llm.json = "array"
    /\ d_returned[2].intent = ErrorIntent

\* ------------------------------------------------ Pipeline: a failed execute

\* C29 (in ReactAgent): the fatal error after the last iteration leaves
\* execute without a result
C29_FatalIsNotAResult ==
    r_pc = "raised_fatal" => (result = NoResult /\ iteration = max_iterations)

\* C29: when ReactAgent.execute raised for a signal, the consumer leaves
\* _handle_signal without building a Session or handing one to the Inbox, and
\* is back in its loop, ready for the signals queued after it
C29_RaisedExecuteSkipsSessionKeepsLoop ==
    [][\A t \in ThreadIds :
        (/\ threads[t].pc = "pool"
         /\ threads[t].react = "raised"
         /\ threads'[t] # threads[t])
        => /\ inbox' = inbox
           /\ session' = session
           /\ threads'[t].pc \in {"pool", "loop"}
           /\ threads'[t].pc = "loop" => threads[t].classify = "done"]_vars

\* execute raised for signal 1, which got no Session; signal 2, queued after
\* it, was then handled and delivered
C29_Witness ==
    /\ handled = <<1, 2>>
    /\ 1 \in react_calls
    /\ 1 \notin inbox
    /\ 2 \in inbox
    /\ session.signal = 2
    /\ \A t \in ThreadIds : threads[t].pc \notin {"detect", "pool"}

\* ------------------------------------------------ engine components: reload

\* a step of reload_engine_config or of update_handler_components
ReloadStep ==
    \/ pipeline_react_agent' # pipeline_react_agent
    \/ engine_components' # engine_components
    \/ apply_pc' # apply_pc

\* C30: reload_engine_config followed by update_handler_components replaces
\* the ReactAgent of Pipeline and Handler and leaves active_sessions and every
\* session's messages, status and timer as they were; a continuation started
\* afterwards runs on the new ReactAgent, one in flight stays on the
\* ReactAgent it was started with
C30_ReloadKeepsSessions ==
    /\ [][ReloadStep =>
            /\ active_sessions' = active_sessions
            /\ sessions' = sessions
            /\ timeout_timers' = timeout_timers
            /\ workers' = workers
            /\ worker_agents' = worker_agents]_vars
    /\ [][(apply_pc = "idle" /\ apply_pc' = "reloaded") =>
            pipeline_react_agent' # pipeline_react_agent]_vars
    /\ [][(apply_pc = "reloaded" /\ apply_pc' = "idle") =>
            (/\ engine_components' = pipeline_react_agent
             /\ engine_components' # engine_components)]_vars
    /\ [][Len(workers') > Len(workers) =>
            worker_agents'[Len(workers')].react_agent = engine_components]_vars
    /\ [][\A w \in DOMAIN worker_agents :
            /\ worker_agents'[w].react_agent = worker_agents[w].react_agent
            /\ worker_agents'[w].ran_on \in {NoAgent, worker_agents[w].react_agent}
            /\ workers'[w].pc # "started" =>
                  worker_agents'[w].ran_on = worker_agents[w].react_agent]_vars

\* an active Review session whose first continuation is still running on the
\* old ReactAgent while the second, started after the reload, has the new one
C30_Witness ==
    /\ sessions["session-1"].level = "Review"
    /\ "session-1" \in active_sessions
    /\ Len(workers) = 2
    /\ workers[1].pc = "running"
    /\ worker_agents[1] = [react_agent |-> 0, ran_on |-> 0]
    /\ worker_agents[2].react_agent = 1
    /\ engine_components = 1
    /\ pipeline_react_agent = 1

\* ------------------------------------------------ Handler: button selections

\* C31: a button selection <||X||> is stored as its canonical phrase: every
\* user turn on_user_input appends holds the approval phrase, the rejection
\* phrase or the user's free text, never the token or the word X
C31_ButtonsStoredAsCanonicalPhrase ==
    [][\A s \in SessionIds :
          UserTurnAppended(s) =>
              LET turn == sessions'[s].messages[Len(sessions'[s].messages)]
                  shown == sessions'[s].messages_to_user[Len(sessions'[s].messages_to_user)]
              IN /\ turn.text \in {"User approved to confirm this message.",
                                   "User rejected this message.", "hello"}
                 /\ shown.text = turn.text]_vars

\* ------------------------------------------------ LLMClient: properties

\* C32: chat_completion makes at most max_retries attempts, returns at the
\* first attempt that gives a text and makes none after it, raises only after
\* max_retries failed attempts in a row, and always comes to an end
C32_BoundedRetries ==
    /\ l_pc \in {"off", "entry", "for", "try", "returned", "raised"}
    /\ l_pc \notin {"off", "returned", "raised"} => ENABLED NextLLM
    /\ l_pc \notin {"off", "entry"} =>
          /\ Len(l_log) <= l_max_retries
          /\ \A k \in DOMAIN l_log : l_log[k] = "text" => (k = Len(l_log) /\ l_pc = "returned")
          /\ l_pc = "returned" => l_log[Len(l_log)] = "text"
          /\ l_pc = "raised" =>
                /\ Len(l_log) = l_max_retries
                /\ \A k \in DOMAIN l_log : l_log[k] # "text"

\* the third of three attempts gave the text
C32_Witness ==
    /\ l_pc = "returned"
    /\ l_max_retries = 3
    /\ l_log = <<"raises", "none content", "text">>

\* ------------------------------------------------ Session: terminal states

\* C33: once a session is completed or in error, its messages,
\* messages_to_user and status never change again, whatever arrives later
C33_TerminalSessionFrozen ==
    [][\A s \in SessionIds :
          sessions[s].status \in {"completed", "error"} =>
              /\ sessions'[s].messages = sessions[s].messages
              /\ sessions'[s].messages_to_user = sessions[s].messages_to_user
              /\ sessions'[s].status = sessions[s].status]_vars


\* the user turns of a session did not overlap: in messages_to_user no user
\* entry directly follows another, so each user input arrived after the answer
\* or error message of the previous one was appended
TurnsDoNotOverlap(sess) ==
    \A i \in 1..(Len(sess.messages_to_user) - 1) :
        ~(/\ sess.messages_to_user[i].role = "user"
          /\ sess.messages_to_user[i + 1].role = "user")

Turns(s) == Cardinality({w \in DOMAIN workers : workers[w].session = s})
Answers(s) ==
    Cardinality({i \in DOMAIN sessions[s].messages_to_user :
                    sessions[s].messages_to_user[i].role = "assistant"}) - 1
QueuedSignals(s) == Cardinality({i \in DOMAIN gui_queue : gui_queue[i].session = s})

\* worker w leaves run() in this step
WorkerEnds(w) == workers[w].pc # "done" /\ workers'[w].pc = "done"

\* C35: a started worker ends, and the step in which it ends puts exactly one
\* response_ready or error_occurred of its session in the event queue; no other
\* step adds a signal; for a session that is active every continuation turn is
\* answered, waiting in the queue or still running, and eventually every turn
\* of a session that stays active has exactly one appended assistant entry
C35_EveryContinuationAnsweredOnce ==
    /\ [][/\ \A w \in DOMAIN workers :
                /\ workers[w].pc = "done" => workers'[w].pc = "done"
                /\ WorkerEnds(w) =>
                      /\ \E sig \in {"response_ready", "error_occurred"} :
                            gui_queue' = Append(gui_queue,
                                                [session |-> workers[w].session,
                                                 signal |-> sig])
                      /\ \A v \in DOMAIN workers : WorkerEnds(v) => v = w
          /\ (\A w \in DOMAIN workers : ~WorkerEnds(w))
                => Len(gui_queue') <= Len(gui_queue)]_vars
    /\ [](\A s \in active_sessions :
            Answers(s) + QueuedSignals(s) + Cardinality(Outstanding(s)) = Turns(s))
    /\ \A w \in 1..MaxInputs :
          (w \in DOMAIN workers)
              ~> (w \in DOMAIN workers /\ workers[w].pc = "done")
    /\ \A s \in SessionIds :
          (s \in active_sessions /\ Answers(s) < Turns(s))
              ~> (s \notin active_sessions \/ Answers(s) = Turns(s))

\* two continuation turns of an active session, both answered, one by the
\* agent's answer and one by an error message
C35_Witness ==
    \E s \in active_sessions :
        /\ Turns(s) = 2
        /\ Answers(s) = 2
        /\ \E i \in DOMAIN sessions[s].messages_to_user :
              sessions[s].messages_to_user[i].kind = "react_error"
        /\ \E i \in 2..Len(sessions[s].messages_to_user) :
              sessions[s].messages_to_user[i].kind = "final_answer"


\* the elements of a sequence
Range(seq) == {seq[i] : i \in DOMAIN seq}

\* stop() has returned and start() was not called since
Stopped == ~is_running /\ ctl = "idle"

\* a signal waiting in the queue of a running pipeline is eventually passed to
\* _handle_signal, unless the pipeline is stopped first
C36_EnqueuedEventuallyHandled ==
    \A i \in 1..MaxSignals :
        (is_running /\ i \in Range(signal_queue))
            ~> (i \in Range(handled) \/ ~is_running)

\* no signal is passed to _handle_signal twice
C36_HandledOnce ==
    \A i, j \in DOMAIN handled : handled[i] = handled[j] => i = j

\* while the pipeline is stopped the queue only grows at its tail
C36_StoppedKeepsQueue ==
    [][Stopped => IsPrefix(signal_queue, signal_queue')]_vars

\* signals are passed to _handle_signal in the order in which they were enqueued
C36_HandledInOriginalOrder ==
    \A i \in DOMAIN handled : i <= Len(enqueued) /\ handled[i] = enqueued[i]

\* C36: while the pipeline runs every enqueued signal is eventually passed to
\* _handle_signal, exactly once; once stop() has returned the signals in the queue
\* are neither processed nor discarded, and after a later start() they are
\* processed in their original order
C36_QueueSurvivesStop ==
    /\ C36_EnqueuedEventuallyHandled
    /\ []C36_HandledOnce
    /\ C36_StoppedKeepsQueue
    /\ []C36_HandledInOriginalOrder


\* execute_continue leaves by raising: the RuntimeError after the loop or the
\* AssertionError of its first lines
ContinueRaised(pc) == pc \in {"raised_fatal", "raised_assert"}

\* C37: execute_continue changes session.messages in no step but its return,
\* so a call that ends by raising has left it as it was; a call that ends with
\* finish leaves the transcript it found with the last entry, a user turn,
\* replaced by the prompt-wrapped turn of the same text and nothing appended,
\* and returns the raw assistant turn together with the cleaned answer
C37_ContinueFrame ==
    /\ [][mode = "execute_continue" =>
            /\ r_pc' # "returned" => messages' = messages
            /\ ContinueRaised(r_pc') => result' = NoResult
            /\ (r_pc # "returned" /\ r_pc' = "returned") =>
                  /\ messages[Len(messages)].role = "user"
                  /\ Len(messages') = Len(messages)
                  /\ SubSeq(messages', 1, Len(messages) - 1)
                        = SubSeq(messages, 1, Len(messages) - 1)
                  /\ messages'[Len(messages)]
                        = WrappedUserTurn(messages[Len(messages)].text)
                  /\ result'.assistant = llm_response
                  /\ result'.raw_assistant = ClaimedAnswer(llm_response.params)]_vars
    /\ []((mode = "execute_continue" /\ ContinueRaised(r_pc))
            => messages \in ContinueTranscripts)

\* a continuation that used a tool and then finished: the transcript has its
\* three first entries and the wrapped user turn, no assistant turn after it
C37_Witness ==
    /\ mode = "execute_continue"
    /\ r_pc = "returned"
    /\ tool_calls >= 1
    /\ messages = FormatMessages \o <<WrappedUserTurn("hello")>>
    /\ result.raw_assistant = ClaimedAnswer(llm_response.params)


\* ------------------------------------------------ ToolManager: properties

\* C38: whatever register, enable_tool, disable_tool and ToolExecutor.execute
\* calls were made, enabled_tools holds only registered names; a tool's own
\* execute is entered only while the tool is in enabled_tools; enable_tool on
\* an enabled tool and disable_tool on a disabled one leave the set as it is
C38_EnabledToolsGuardInvocation ==
    /\ [](m_enabled \subseteq m_tools)
    /\ [][(m_pc = "invoke" /\ m_pc' # "invoke") =>
            /\ m_name \in m_enabled
            /\ m_name \in m_tools
            /\ m_invoked' = m_invoked \cup {m_name}]_vars
    /\ [][m_pc # "invoke" => m_invoked' = m_invoked]_vars
    /\ [](\A tool_name \in ToolNames :
            /\ tool_name \in m_enabled =>
                  EnableToolResult(m_tools, m_enabled, tool_name) = m_enabled
            /\ tool_name \notin m_enabled =>
                  DisableToolResult(m_tools, m_enabled, tool_name) = m_enabled)

\* the calculator was run, then disabled, and execute is called for it again
\* while the translator is registered and was never enabled
C38_Witness ==
    /\ m_invoked = {"calculator"}
    /\ m_tools = {"calculator", "translator"}
    /\ m_enabled = {}
    /\ m_pc = "enabled?"
    /\ m_name = "calculator"


\* session s was passed to Handler.handle_session
WasHandled(s) == sessions[s].status \notin {"none", "pending"}

\* C39: a session that was passed to handle_session is in active_sessions
\* exactly when its status is active, and a session that was not is not in
\* active_sessions
C39_ActiveSessionsAreTheActiveOnes ==
    \A s \in SessionIds :
        /\ WasHandled(s) => (s \in active_sessions <=> sessions[s].status = "active")
        /\ ~WasHandled(s) => s \notin active_sessions

\* one session finalized, the other ended by handle_error, neither of them in
\* active_sessions any more
C39_Witness ==
    /\ active_sessions = {}
    /\ \E s \in SessionIds : sessions[s].status = "completed"
    /\ \E s \in SessionIds : sessions[s].status = "error"


\* session s leaves active_sessions in this step: finalize_session or handle_error
LeavesActive(s) == s \in active_sessions /\ s \notin active_sessions'

\* C40: timeout_timers has one entry per session at most, and an entry only for
\* a session in active_sessions, a timer that has not fired; the step that
\* takes a session out of active_sessions removes its timer, and a timer is put
\* in place only for an active session, replacing the one that fired
C40_TimersOnlyForActiveSessions ==
    /\ [](/\ DOMAIN timeout_timers = SessionIds
          /\ \A s \in SessionIds :
                /\ timeout_timers[s] \in TimerStates
                /\ timeout_timers[s] # "none" =>
                      /\ s \in active_sessions
                      /\ TimerPending(timeout_timers[s]))
    /\ [][\A s \in SessionIds :
            /\ LeavesActive(s) => timeout_timers'[s] = "none"
            /\ (timeout_timers'[s] # timeout_timers[s] /\ timeout_timers'[s] # "none")
                  => /\ s \in active_sessions'
                     /\ timeout_timers'[s] = "rescheduled"
                            => TimerPending(timeout_timers[s])]_vars

\* a Notify session whose timer was removed by finalize_session next to one
\* whose check found it unread and put a new timer in place
C40_Witness ==
    \E s, u \in SessionIds :
        /\ sessions[s].level = "Notify"
        /\ sessions[s].status = "completed"
        /\ timeout_timers[s] = "none"
        /\ sessions[u].level = "Notify"
        /\ u \in active_sessions
        /\ timeout_timers[u] = "rescheduled"

====
